---- MODULE Spec2Model ----
(***************************************************************************)
(* Model of terraform-provider-sophosfirewall: the XML API adapters        *)
(* (iphost, iphostgroup, machost, firewallrule clients) and the resource   *)
(* and data source handlers built on them.                                 *)
(*                                                                         *)
(* One action per adapter operation or handler.  An action models the      *)
(* whole call: payload construction, temp files, one curl round trip,      *)
(* decoding of the response envelope, the checks on it and normalisation   *)
(* of the returned entity.  The host invokes operations one at a time      *)
(* (pc = "idle"); Return hands control back to the host.                   *)
(***************************************************************************)
EXTENDS Integers, Sequences, FiniteSets, TLC

VARIABLES
    client,     \* the client built by the provider's Configure
    pc,         \* "unconfigured": before Configure; "idle": the host may invoke;
                \* "done": an operation returned;
                \* "reread": the host read the same entity a second time;
                \* "readback": the host read the entity it just wrote
    invoked,    \* [layer, kind, op, name, entity]: the operation and its input
    requests,   \* sequence of request payloads handed to curl by the operation
    response,   \* what the I/O stage produced for the operation
    followUp,   \* what it produced for a handler's second adapter call
    remote,     \* the Set and Remove requests the remote applied
    result,     \* adapter result [err, found, entity]
    state,      \* host state written by a handler (NoState when none written)
    diags,      \* diagnostics appended by a handler
    tempFiles,  \* temporary files the operation created, and those still on disk
                \* when it returned
    reread      \* outcome of the second read, or of the read after a write

vars == <<client, pc, invoked, requests, response, followUp, remote, result, state, diags,
          tempFiles, reread>>

(***************************************************************************)
(* Bounds                                                                  *)
(***************************************************************************)
\* longest resource collection in a Get response
MaxResp == 2
\* longest set-valued list (host groups, hosts, MAC list, zones, networks)
MaxList == 3

(***************************************************************************)
(* Small value domains                                                     *)
(***************************************************************************)
Null == [null |-> TRUE]
Absent == "<absent>"

AuthOK == "Authentication Successful"
LoginStatuses == {AuthOK, "Authentication Failure", "authentication successful"}
ErrorCodes == {"", "500"}
StatusCodes == {"", "200", "500"}

\* Names of the entities in a response: the looked-up name and one that
\* differs from it only in case.
Names == {"web1", "WEB1"}
LookupNames == {"web1"}
TransactionIDs == {"", "tx-42"}

Username == "admin"
Password == "secret"

\* I/O stage outcomes before the response envelope is examined.
\* payloadTmpFail: os.CreateTemp of the payload file failed; payloadWriteFail:
\* the file was created and writing the payload into it failed.
IOFailures == {"payloadTmpFail", "payloadWriteFail", "responseTmpFail", "curlFail"}
NonXMLBodies == {"empty", "garbage"}

SeqsUpTo(S, n) == UNION {[1..k -> S] : k \in 0..n}

Range(s) == {s[i] : i \in 1..Len(s)}

\* Position marker carried in Description so that elements of a response
\* with equal names can be told apart.
Descr(i) == "d" \o ToString(i)

NameSeqs == SeqsUpTo(Names, MaxResp)

\* Go slices: nil and empty are distinct values.
NilList == [isNil |-> TRUE, items |-> <<>>]
List(s) == [isNil |-> FALSE, items |-> s]

\* Iteration over a Go map visits the keys in an unspecified order: every
\* enumeration of the key set is a possible outcome.
MapOrders(S) ==
    {f \in [1..Cardinality(S) -> S] : \A x \in S : \E i \in 1..Cardinality(S) : f[i] = x}

\* Sensitivity variant for C4: names compared without regard to case.
FoldCase(n) == IF n = "web1" THEN "WEB1" ELSE n

FirstMatchFold(entities, name) ==
    IF \E i \in 1..Len(entities) : FoldCase(entities[i].Name) = FoldCase(name)
    THEN CHOOSE i \in 1..Len(entities) :
            /\ FoldCase(entities[i].Name) = FoldCase(name)
            /\ \A j \in 1..(i - 1) : FoldCase(entities[j].Name) # FoldCase(name)
    ELSE 0

\* Index of the first element named name, 0 when there is none.
FirstMatch(entities, name) ==
    IF \E i \in 1..Len(entities) : entities[i].Name = name
    THEN CHOOSE i \in 1..Len(entities) :
            /\ entities[i].Name = name
            /\ \A j \in 1..(i - 1) : entities[j].Name # name
    ELSE 0

(***************************************************************************)
(* Responses                                                               *)
(***************************************************************************)
\* Outcome of the I/O stage: io names what happened; the envelope fields are
\* meaningful when io = "xml".
Resp(io, login, ecode, scode, entities) ==
    [io |-> io, Login |-> login, ErrorCode |-> ecode, StatusCode |-> scode,
     Entities |-> entities]

FailedIO == {Resp(io, "", "", "", <<>>) : io \in IOFailures \cup NonXMLBodies}

\* Responses to Set and Remove requests: no entities.
SetResponses ==
    FailedIO \cup
    {Resp("xml", l, e, s, <<>>) : l \in LoginStatuses, e \in ErrorCodes, s \in StatusCodes}

\* Responses to Get requests carrying the given collections.
GetResponses(collections) ==
    FailedIO \cup
    {Resp("xml", l, e, "", c) : l \in LoginStatuses, e \in ErrorCodes, c \in collections}

\* Sensitivity variant for C21: a failed curl run is repeated once.
SubmittedWithRetry(resp, payload) ==
    IF resp.io \in {"payloadTmpFail", "payloadWriteFail", "responseTmpFail"} THEN <<>>
    ELSE IF resp.io = "curlFail" THEN <<payload, payload>>
    ELSE <<payload>>

\* Number of requests handed to curl for an I/O outcome.
Submitted(resp, payload) ==
    IF resp.io \in {"payloadTmpFail", "payloadWriteFail", "responseTmpFail"} THEN <<>>
    ELSE <<payload>>

\* Errors are modelled by the leading phrase of their message.
Err(msg) == [err |-> msg, found |-> FALSE, entity |-> Null]
Ok == [err |-> "", found |-> FALSE, entity |-> Null]
Found(e) == [err |-> "", found |-> TRUE, entity |-> e]

NoState == [none |-> TRUE]
Removed == [removed |-> TRUE]
NoCall == [layer |-> "none", kind |-> "none", op |-> "none", name |-> "", entity |-> Null]

NoFiles == [created |-> {}, left |-> {}]

NoResponse == Resp("none", "", "", "", <<>>)

\* common.CreateTempFile: the file exists once os.CreateTemp succeeded, also
\* when the Write that follows fails and the error is returned.
CreateTempFile(resp) ==
    [exists |-> resp.io # "payloadTmpFail",
     err |-> resp.io \in {"payloadTmpFail", "payloadWriteFail"}]

\* Every adapter operation stages its request the same way: CreateTempFile,
\* return on error, defer os.Remove of the payload file, os.CreateTemp of the
\* response file, return on error, defer os.Remove of the response file.
TempFiles(resp) ==
    LET payload == CreateTempFile(resp)
        responseCreated == ~payload.err /\ resp.io # "responseTmpFail"
        created == (IF payload.exists THEN {"payload"} ELSE {})
                   \cup (IF responseCreated THEN {"response"} ELSE {})
        deferred == (IF ~payload.err THEN {"payload"} ELSE {})
                    \cup (IF responseCreated THEN {"response"} ELSE {})
    IN [created |-> created, left |-> created \ deferred]

\* Files of two adapter calls made one after the other.
BothFiles(a, b) == [created |-> a.created \cup b.created, left |-> a.left \cup b.left]

\* The remote applies the Set or Remove of a request exactly when it answers
\* it with a successful login and no Error, and for a Set with Status 200.
\* A Get changes nothing.
Applied(reqs, resp) ==
    IF /\ Len(reqs) > 0
       /\ reqs[1].verb \in {"Set", "Remove"}
       /\ resp.io = "xml"
       /\ resp.Login = "Authentication Successful"
       /\ resp.ErrorCode = ""
       /\ (reqs[1].verb = "Set" => resp.StatusCode = "200")
    THEN <<reqs[1]>>
    ELSE <<>>

Init ==
    /\ client = Null
    /\ pc = "unconfigured"
    /\ invoked = NoCall
    /\ requests = <<>>
    /\ response = NoResponse
    /\ followUp = NoResponse
    /\ remote = <<>>
    /\ result = Ok
    /\ state = NoState
    /\ diags = <<>>
    /\ tempFiles = NoFiles
    /\ reread = Null

\* tls.Config of the http.Client the base client holds.
NewBaseClient(insecure) ==
    [Endpoint |-> "https://fw:4444", Username |-> Username, Password |-> Password,
     InsecureSkipVerify |-> insecure]

NewSophosClient(insecure) == [BaseClient |-> NewBaseClient(insecure)]

\* SophosProvider.Configure: insecure is false unless the configuration
\* sets it.
Configure ==
    /\ pc = "unconfigured"
    /\ \E configInsecure \in {Null} \cup {[null |-> FALSE, v |-> b] : b \in BOOLEAN} :
            LET insecure == IF ~configInsecure.null THEN configInsecure.v ELSE FALSE
            IN client' = NewSophosClient(insecure)
    /\ pc' = "idle"
    /\ UNCHANGED <<invoked, requests, response, followUp, remote, result, state, diags,
                   tempFiles, reread>>

Return ==
    /\ pc \in {"done", "reread", "readback"}
    /\ UNCHANGED client
    /\ pc' = "idle"
    /\ invoked' = NoCall
    /\ requests' = <<>>
    /\ response' = NoResponse
    /\ followUp' = NoResponse
    /\ remote' = <<>>
    /\ result' = Ok
    /\ state' = NoState
    /\ diags' = <<>>
    /\ tempFiles' = NoFiles
    /\ reread' = Null

\* Every operation is one transition from "idle" to "done"; each action
\* checks pc = "idle" before it draws its inputs.
\* resp2 is the response to a second adapter call, NoResponse when the
\* operation made one call or none.
FinishBoth(layer, kind, op, name, entity, reqs, resp, resp2, res, st, dg) ==
    /\ pc' = "done"
    /\ invoked' = [layer |-> layer, kind |-> kind, op |-> op, name |-> name,
                   entity |-> entity]
    /\ requests' = reqs
    /\ response' = resp
    /\ followUp' = resp2
    /\ remote' = Applied(reqs, resp)
    /\ result' = res
    /\ state' = st
    /\ diags' = dg
    /\ tempFiles' = IF res.err = Absent THEN NoFiles
                    ELSE IF resp2 = NoResponse THEN TempFiles(resp)
                    ELSE BothFiles(TempFiles(resp), TempFiles(resp2))
    /\ reread' = Null
    /\ UNCHANGED client

Finish(layer, kind, op, name, entity, reqs, resp, res, st, dg) ==
    FinishBoth(layer, kind, op, name, entity, reqs, resp, NoResponse, res, st, dg)

\* Arguments of the curl command line besides the URL and the two file names.
CurlFlags == {"-k", "-F", "-o"}

\* Request envelope: Login plus exactly one of Set, Get, Remove.
SetPayload(operation, element, nameElement, fields) ==
    [Username |-> Username, Password |-> Password, verb |-> "Set",
     operation |-> operation, element |-> element, nameElement |-> nameElement,
     fields |-> fields, flags |-> CurlFlags]

\* Sensitivity variant for C26: the lookup is sent inside a Set block.
KeyPayloadInSet(verb, element, name) ==
    [Username |-> Username, Password |-> Password, verb |-> "Set",
     operation |-> Absent, element |-> element, nameElement |-> "Name",
     fields |-> [Name |-> name], flags |-> CurlFlags]

KeyPayload(verb, element, name) ==
    [Username |-> Username, Password |-> Password, verb |-> verb,
     operation |-> Absent, element |-> element, nameElement |-> "Name",
     fields |-> [Name |-> name], flags |-> CurlFlags]

(***************************************************************************)
(* IPHost adapter (package iphost)                                         *)
(***************************************************************************)
HostTypes == {"IP", "Network", "IPRange", "IPList", "System Host", "SystemHost"}
TypeFields == {"IPAddress", "Subnet", "StartIPAddress", "EndIPAddress", "ListOfIPAddresses"}
GroupNames == {"g1", "g2"}
GroupLists == {NilList} \cup {List(s) : s \in SeqsUpTo(GroupNames, MaxList)}

FieldValue(f) ==
    CASE f = "IPAddress" -> "192.168.1.10"
      [] f = "Subnet" -> "255.255.255.0"
      [] f = "StartIPAddress" -> "10.0.0.1"
      [] f = "EndIPAddress" -> "10.0.0.9"
      [] f = "ListOfIPAddresses" -> "10.1.1.1,10.1.1.2"

IPHost(name, descr, hostType, populated, tid, groups) ==
    [Name |-> name, Description |-> descr, IPFamily |-> "IPv4", HostType |-> hostType,
     IPAddress |-> IF "IPAddress" \in populated THEN FieldValue("IPAddress") ELSE "",
     Subnet |-> IF "Subnet" \in populated THEN FieldValue("Subnet") ELSE "",
     StartIPAddress |-> IF "StartIPAddress" \in populated THEN FieldValue("StartIPAddress") ELSE "",
     EndIPAddress |-> IF "EndIPAddress" \in populated THEN FieldValue("EndIPAddress") ELSE "",
     TransactionID |-> tid,
     ListOfIPAddresses |-> IF "ListOfIPAddresses" \in populated THEN FieldValue("ListOfIPAddresses") ELSE "",
     HostGroupList |-> groups]

\* Entities the host hands to Create and Update.
IPHostInputs ==
    {IPHost(n, "d0", t, p, tid, g) :
        n \in LookupNames, t \in HostTypes, p \in {TypeFields, {}},
        tid \in TransactionIDs,
        g \in {NilList, List(<<"g1">>), List(<<"g2", "g1">>)}}

\* What the remote may return for one IPHost, whatever its HostType.
IPHostTemplates ==
    {IPHost("", "", t, p, "", NilList) : t \in HostTypes, p \in SUBSET TypeFields}
    \cup {IPHost("", "", "IP", TypeFields, "", g) : g \in GroupLists}

Collections(templates) ==
    {[i \in 1..Len(ns) |-> [t EXCEPT !.Name = ns[i], !.Description = Descr(i)]] :
        ns \in NameSeqs, t \in templates}

\* xml.MarshalIndent of the request: the Set block holds a pointer to the
\* entity, so the payload shows the entity as it is when Marshal runs.
CreateIPHostPayload(ipHost) == SetPayload("add", "IPHost", "Name", ipHost)

CreateIPHost(ipHost, resp) ==
    IF resp.io \in {"payloadTmpFail", "payloadWriteFail"} THEN Err("error creating temporary file")
    ELSE IF resp.io = "responseTmpFail" THEN Err("error creating response temporary file")
    ELSE IF resp.io = "curlFail" THEN Err("error executing curl")
    ELSE IF resp.io # "xml" THEN Err("error unmarshaling")
    ELSE IF resp.Login # "Authentication Successful" THEN Err("authentication failed")
    ELSE IF resp.ErrorCode # "" THEN Err("Sophos API error")
    ELSE IF resp.StatusCode # "200" THEN Err("operation failed")
    ELSE Ok

\* Sensitivity variant for C25: the host groups are kept as decoded.
NormalizeIPHostGroupsAsDecoded(host) == {host}

\* Deduplication through a map, then variant-field nulling.
NormalizeIPHostGroups(host) ==
    IF ~host.HostGroupList.isNil /\ Len(host.HostGroupList.items) > 0
    THEN {[host EXCEPT !.HostGroupList = List(o)] :
            o \in MapOrders(Range(host.HostGroupList.items))}
    ELSE {[host EXCEPT !.HostGroupList = List(<<>>)]}

\* Sensitivity variant for C6: the IPList case leaves Subnet in place.
NormalizeIPHostTypeLeaky(host) ==
    CASE host.HostType = "IP" ->
            [host EXCEPT !.ListOfIPAddresses = "", !.StartIPAddress = "",
                         !.EndIPAddress = "", !.Subnet = ""]
      [] host.HostType = "Network" ->
            [host EXCEPT !.StartIPAddress = "", !.EndIPAddress = "",
                         !.ListOfIPAddresses = ""]
      [] host.HostType = "IPRange" ->
            [host EXCEPT !.IPAddress = "", !.Subnet = "", !.ListOfIPAddresses = ""]
      [] host.HostType = "IPList" ->
            [host EXCEPT !.IPAddress = "", !.StartIPAddress = "", !.EndIPAddress = ""]
      [] host.HostType = "System Host" ->
            [host EXCEPT !.IPAddress = "", !.Subnet = "", !.StartIPAddress = "",
                         !.EndIPAddress = "", !.ListOfIPAddresses = ""]
      [] OTHER -> host


NormalizeIPHostType(host) ==
    CASE host.HostType = "IP" ->
            [host EXCEPT !.ListOfIPAddresses = "", !.StartIPAddress = "",
                         !.EndIPAddress = "", !.Subnet = ""]
      [] host.HostType = "Network" ->
            [host EXCEPT !.StartIPAddress = "", !.EndIPAddress = "",
                         !.ListOfIPAddresses = ""]
      [] host.HostType = "IPRange" ->
            [host EXCEPT !.IPAddress = "", !.Subnet = "", !.ListOfIPAddresses = ""]
      [] host.HostType = "IPList" ->
            [host EXCEPT !.IPAddress = "", !.Subnet = "", !.StartIPAddress = "",
                         !.EndIPAddress = ""]
      [] host.HostType = "System Host" ->
            [host EXCEPT !.IPAddress = "", !.Subnet = "", !.StartIPAddress = "",
                         !.EndIPAddress = "", !.ListOfIPAddresses = ""]
      [] OTHER -> host

\* The set of results ReadIPHost can return for a response.
ReadIPHost(name, resp) ==
    IF resp.io \in {"payloadTmpFail", "payloadWriteFail"} THEN {Err("error creating temporary file")}
    ELSE IF resp.io = "responseTmpFail" THEN {Err("error creating response temporary file")}
    ELSE IF resp.io = "curlFail" THEN {Err("error executing curl")}
    ELSE IF resp.io = "empty" THEN {Err("received empty response from Sophos API")}
    ELSE IF resp.io # "xml" THEN {Err("error unmarshaling")}
    ELSE IF resp.Login # "Authentication Successful" THEN {Err("authentication failed")}
    ELSE IF resp.ErrorCode # "" THEN {Err("Sophos API error")}
    ELSE LET i == FirstMatch(resp.Entities, name) IN
         IF i # 0
         THEN {Found(NormalizeIPHostType(h)) : h \in NormalizeIPHostGroups(resp.Entities[i])}
         ELSE {Ok}

\* TransactionID is cleared after the request struct is built and before
\* Marshal runs; the Set block points at the same entity.
UpdateIPHostPayload(ipHost) ==
    SetPayload("update", "IPHost", "Name", [ipHost EXCEPT !.TransactionID = ""])

UpdateIPHost(ipHost, resp) ==
    IF resp.io \in {"payloadTmpFail", "payloadWriteFail"} THEN Err("error creating temporary file")
    ELSE IF resp.io = "responseTmpFail" THEN Err("error creating response temporary file")
    ELSE IF resp.io = "curlFail" THEN Err("error executing curl")
    ELSE IF resp.io # "xml" THEN Err("error unmarshaling")
    ELSE IF resp.Login # "Authentication Successful" THEN Err("authentication failed")
    ELSE IF resp.ErrorCode # "" THEN Err("Sophos API error")
    ELSE Ok

DeleteIPHost(name, resp) ==
    IF resp.io \in {"payloadTmpFail", "payloadWriteFail"} THEN Err("error creating temporary file")
    ELSE IF resp.io = "responseTmpFail" THEN Err("error creating response temporary file")
    ELSE IF resp.io = "curlFail" THEN Err("error executing curl")
    ELSE IF resp.io = "empty" THEN Err("received empty response from Sophos API")
    ELSE IF resp.io # "xml" THEN Err("error unmarshaling")
    ELSE IF resp.Login # "Authentication Successful" THEN Err("authentication failed")
    ELSE IF resp.ErrorCode # "" THEN Err("Sophos API error")
    ELSE Ok

CallCreateIPHost ==
    /\ pc = "idle"
    /\ \E ipHost \in IPHostInputs, resp \in SetResponses :
            Finish("adapter", "IPHost", "Create", ipHost.Name, ipHost,
                   Submitted(resp, CreateIPHostPayload(ipHost)), resp,
                   CreateIPHost(ipHost, resp), NoState, <<>>)

CallReadIPHost ==
    /\ pc = "idle"
    /\ \E name \in LookupNames, resp \in GetResponses(Collections(IPHostTemplates)) :
            \E res \in ReadIPHost(name, resp) :
                Finish("adapter", "IPHost", "Read", name, Null,
                       Submitted(resp, KeyPayload("Get", "IPHost", name)), resp,
                       res, NoState, <<>>)

CallUpdateIPHost ==
    /\ pc = "idle"
    /\ \E ipHost \in IPHostInputs, resp \in SetResponses :
            Finish("adapter", "IPHost", "Update", ipHost.Name, ipHost,
                   Submitted(resp, UpdateIPHostPayload(ipHost)), resp,
                   UpdateIPHost(ipHost, resp), NoState, <<>>)

CallDeleteIPHost ==
    /\ pc = "idle"
    /\ \E name \in LookupNames, resp \in SetResponses :
            Finish("adapter", "IPHost", "Delete", name, Null,
                   Submitted(resp, KeyPayload("Remove", "IPHost", name)), resp,
                   DeleteIPHost(name, resp), NoState, <<>>)

(***************************************************************************)
(* IPHostGroup adapter (package iphostgroup)                               *)
(***************************************************************************)
HostNames == {"h1", "h2"}
HostLists == {NilList} \cup {List(s) : s \in SeqsUpTo(HostNames, MaxList)}

IPHostGroup(name, descr, hosts, tid) ==
    [Name |-> name, Description |-> descr, IPFamily |-> "IPv4", HostList |-> hosts,
     TransactionID |-> tid]

IPHostGroupInputs ==
    {IPHostGroup(n, "d0", h, tid) :
        n \in LookupNames, h \in HostLists, tid \in TransactionIDs}

IPHostGroupTemplates == {IPHostGroup("", "", h, "") : h \in HostLists}

CreateIPHostGroupPayload(ipHostGroup) == SetPayload("add", "IPHostGroup", "Name", ipHostGroup)

CreateIPHostGroup(ipHostGroup, resp) ==
    IF resp.io \in {"payloadTmpFail", "payloadWriteFail"} THEN Err("error creating temporary file")
    ELSE IF resp.io = "responseTmpFail" THEN Err("error creating response temporary file")
    ELSE IF resp.io = "curlFail" THEN Err("error executing curl")
    ELSE IF resp.io # "xml" THEN Err("error unmarshaling")
    ELSE IF resp.Login # "Authentication Successful" THEN Err("authentication failed")
    ELSE IF resp.ErrorCode # "" THEN Err("Sophos API error")
    ELSE IF resp.StatusCode # "200" THEN Err("operation failed")
    ELSE Ok

\* Deduplication through a map.
NormalizeHostList(group) ==
    IF ~group.HostList.isNil /\ Len(group.HostList.items) > 0
    THEN {[group EXCEPT !.HostList = List(o)] : o \in MapOrders(Range(group.HostList.items))}
    ELSE {[group EXCEPT !.HostList = List(<<>>)]}

\* Sensitivity variant for C1: the Error element is examined before the login.
ReadIPHostGroupErrorFirst(name, resp) ==
    IF resp.io \in {"payloadTmpFail", "payloadWriteFail"} THEN {Err("error creating temporary file")}
    ELSE IF resp.io = "responseTmpFail" THEN {Err("error creating response temporary file")}
    ELSE IF resp.io = "curlFail" THEN {Err("error executing curl")}
    ELSE IF resp.io = "empty" THEN {Err("received empty response from Sophos API")}
    ELSE IF resp.io # "xml" THEN {Err("error unmarshaling")}
    ELSE IF resp.ErrorCode # "" THEN {Err("Sophos API error")}
    ELSE IF resp.Login # "Authentication Successful" THEN {Err("authentication failed")}
    ELSE LET i == FirstMatch(resp.Entities, name) IN
         IF i # 0
         THEN {Found(g) : g \in NormalizeHostList(resp.Entities[i])}
         ELSE {Ok}


ReadIPHostGroup(name, resp) ==
    IF resp.io \in {"payloadTmpFail", "payloadWriteFail"} THEN {Err("error creating temporary file")}
    ELSE IF resp.io = "responseTmpFail" THEN {Err("error creating response temporary file")}
    ELSE IF resp.io = "curlFail" THEN {Err("error executing curl")}
    ELSE IF resp.io = "empty" THEN {Err("received empty response from Sophos API")}
    ELSE IF resp.io # "xml" THEN {Err("error unmarshaling")}
    ELSE IF resp.Login # "Authentication Successful" THEN {Err("authentication failed")}
    ELSE IF resp.ErrorCode # "" THEN {Err("Sophos API error")}
    ELSE LET i == FirstMatch(resp.Entities, name) IN
         IF i # 0
         THEN {Found(g) : g \in NormalizeHostList(resp.Entities[i])}
         ELSE {Ok}

\* Sensitivity variant for C10: the payload is serialized before the id is cleared.
UpdateIPHostGroupPayloadEarly(ipHostGroup) ==
    SetPayload("update", "IPHostGroup", "Name", ipHostGroup)


UpdateIPHostGroupPayload(ipHostGroup) ==
    SetPayload("update", "IPHostGroup", "Name", [ipHostGroup EXCEPT !.TransactionID = ""])

UpdateIPHostGroup(ipHostGroup, resp) ==
    IF resp.io \in {"payloadTmpFail", "payloadWriteFail"} THEN Err("error creating temporary file")
    ELSE IF resp.io = "responseTmpFail" THEN Err("error creating response temporary file")
    ELSE IF resp.io = "curlFail" THEN Err("error executing curl")
    ELSE IF resp.io # "xml" THEN Err("error unmarshaling")
    ELSE IF resp.Login # "Authentication Successful" THEN Err("authentication failed")
    ELSE IF resp.ErrorCode # "" THEN Err("Sophos API error")
    ELSE Ok

DeleteIPHostGroup(name, resp) ==
    IF resp.io \in {"payloadTmpFail", "payloadWriteFail"} THEN Err("error creating temporary file")
    ELSE IF resp.io = "responseTmpFail" THEN Err("error creating response temporary file")
    ELSE IF resp.io = "curlFail" THEN Err("error executing curl")
    ELSE IF resp.io = "empty" THEN Err("received empty response from Sophos API")
    ELSE IF resp.io # "xml" THEN Err("error unmarshaling")
    ELSE IF resp.Login # "Authentication Successful" THEN Err("authentication failed")
    ELSE IF resp.ErrorCode # "" THEN Err("Sophos API error")
    ELSE Ok

(***************************************************************************)
(* MACHost adapter (package machost)                                       *)
(***************************************************************************)
MACTypes == {"MACAddress", "MACLIST", "maclist"}
MACs == {"AA:BB:CC:DD:EE:FF", "11:22:33:44:55:66"}

MACHost(name, descr, type, mac, list, tid) ==
    [Name |-> name, Description |-> descr, Type |-> type, MACAddress |-> mac,
     ListOfMACAddresses |-> list, TransactionID |-> tid]

\* A MACHost element of a Get response: MACList holds the MACAddress children.
WireMACHost(name, descr, type, mac, macList, tid) ==
    [Name |-> name, Description |-> descr, Type |-> type, MACAddress |-> mac,
     MACList |-> macList, TransactionID |-> tid]

MACHostInputs ==
    {MACHost(n, "d0", t, m, l, tid) :
        n \in LookupNames, t \in MACTypes, m \in {"", "AA:BB:CC:DD:EE:FF"},
        l \in {NilList, List(<<"AA:BB:CC:DD:EE:FF", "11:22:33:44:55:66">>)},
        tid \in TransactionIDs}

MACHostTemplates ==
    {WireMACHost("", "", t, m, l, "tx-42") :
        t \in MACTypes, m \in {"", "AA:BB:CC:DD:EE:FF"}, l \in SeqsUpTo(MACs, MaxList)}

\* The request is formatted text: Name, Description and Type, then the
\* element of the entity's Type; the transaction id is never written.
MACHostFields(macHost) ==
    [Name |-> macHost.Name, Description |-> macHost.Description, Type |-> macHost.Type,
     MACAddress |-> IF macHost.Type = "MACAddress" THEN macHost.MACAddress ELSE Absent,
     MACList |-> IF macHost.Type # "MACAddress" /\ macHost.Type = "MACLIST"
                 THEN List(macHost.ListOfMACAddresses.items) ELSE NilList,
     TransactionID |-> Absent]

CreateMACHostPayload(macHost) == SetPayload("add", "MACHost", "Name", MACHostFields(macHost))

CreateMACHost(macHost, resp) ==
    IF resp.io \in {"payloadTmpFail", "payloadWriteFail"} THEN Err("error creating temporary file")
    ELSE IF resp.io = "responseTmpFail" THEN Err("error creating response temporary file")
    ELSE IF resp.io = "curlFail" THEN Err("error executing curl")
    ELSE IF resp.io = "empty" THEN Err("received empty response from Sophos API")
    ELSE IF resp.io # "xml" THEN Err("error unmarshaling")
    ELSE IF resp.Login # "Authentication Successful" THEN Err("authentication failed")
    ELSE IF resp.ErrorCode # "" THEN Err("operation failed")
    ELSE Ok

\* A decoded slice with no elements is nil.
DecodedList(s) == IF Len(s) = 0 THEN NilList ELSE List(s)

ReadMACHostEntity(host) ==
    [Name |-> host.Name, Description |-> host.Description, Type |-> host.Type,
     MACAddress |-> IF host.Type = "MACAddress" THEN host.MACAddress ELSE "",
     ListOfMACAddresses |-> IF host.Type # "MACAddress" /\ host.Type = "MACLIST"
                            THEN DecodedList(host.MACList) ELSE NilList,
     TransactionID |-> host.TransactionID]

\* Sensitivity variant for C5: a missing entity is reported as an error.
ReadMACHostStrict(name, resp) ==
    IF resp.io \in {"payloadTmpFail", "payloadWriteFail"} THEN {Err("error creating temporary file")}
    ELSE IF resp.io = "responseTmpFail" THEN {Err("error creating response temporary file")}
    ELSE IF resp.io = "curlFail" THEN {Err("error executing curl")}
    ELSE IF resp.io = "empty" THEN {Err("received empty response from Sophos API")}
    ELSE IF resp.io # "xml" THEN {Err("error unmarshaling")}
    ELSE IF resp.Login # "Authentication Successful" THEN {Err("authentication failed")}
    ELSE IF resp.ErrorCode # "" THEN {Err("Sophos API error")}
    ELSE LET i == FirstMatch(resp.Entities, name) IN
         IF i # 0
         THEN {Found(ReadMACHostEntity(resp.Entities[i]))}
         ELSE {Err("not found")}


ReadMACHost(name, resp) ==
    IF resp.io \in {"payloadTmpFail", "payloadWriteFail"} THEN {Err("error creating temporary file")}
    ELSE IF resp.io = "responseTmpFail" THEN {Err("error creating response temporary file")}
    ELSE IF resp.io = "curlFail" THEN {Err("error executing curl")}
    ELSE IF resp.io = "empty" THEN {Err("received empty response from Sophos API")}
    ELSE IF resp.io # "xml" THEN {Err("error unmarshaling")}
    ELSE IF resp.Login # "Authentication Successful" THEN {Err("authentication failed")}
    ELSE IF resp.ErrorCode # "" THEN {Err("Sophos API error")}
    ELSE LET i == FirstMatch(resp.Entities, name) IN
         IF i # 0
         THEN {Found(ReadMACHostEntity(resp.Entities[i]))}
         ELSE {Ok}

\* The update request names the entity in an element n, not Name.
UpdateMACHostPayload(macHost) == SetPayload("update", "MACHost", "n", MACHostFields(macHost))

UpdateMACHost(macHost, resp) ==
    IF resp.io \in {"payloadTmpFail", "payloadWriteFail"} THEN Err("error creating temporary file")
    ELSE IF resp.io = "responseTmpFail" THEN Err("error creating response temporary file")
    ELSE IF resp.io = "curlFail" THEN Err("error executing curl")
    ELSE IF resp.io = "empty" THEN Err("received empty response from Sophos API")
    ELSE IF resp.io # "xml" THEN Err("error unmarshaling")
    ELSE IF resp.Login # "Authentication Successful" THEN Err("authentication failed")
    ELSE IF resp.ErrorCode # "" THEN Err("operation failed")
    ELSE Ok

\* Sensitivity variant for C12: Delete also requires Status code "200".
DeleteMACHostStatusChecked(name, resp) ==
    IF resp.io \in {"payloadTmpFail", "payloadWriteFail"} THEN Err("error creating temporary file")
    ELSE IF resp.io = "responseTmpFail" THEN Err("error creating response temporary file")
    ELSE IF resp.io = "curlFail" THEN Err("error executing curl")
    ELSE IF resp.io = "empty" THEN Err("received empty response from Sophos API")
    ELSE IF resp.io # "xml" THEN Err("error unmarshaling")
    ELSE IF resp.Login # "Authentication Successful" THEN Err("authentication failed")
    ELSE IF resp.ErrorCode # "" THEN Err("Sophos API error")
    ELSE IF resp.StatusCode # "200" THEN Err("operation failed")
    ELSE Ok

DeleteMACHost(name, resp) ==
    IF resp.io \in {"payloadTmpFail", "payloadWriteFail"} THEN Err("error creating temporary file")
    ELSE IF resp.io = "responseTmpFail" THEN Err("error creating response temporary file")
    ELSE IF resp.io = "curlFail" THEN Err("error executing curl")
    ELSE IF resp.io = "empty" THEN Err("received empty response from Sophos API")
    ELSE IF resp.io # "xml" THEN Err("error unmarshaling")
    ELSE IF resp.Login # "Authentication Successful" THEN Err("authentication failed")
    ELSE IF resp.ErrorCode # "" THEN Err("Sophos API error")
    ELSE Ok

(***************************************************************************)
(* FirewallRule adapter (package firewallrule)                             *)
(***************************************************************************)
Positions == {"Top", "Bottom", "After", "Before"}
RuleNames == {"rule0"}
Zones == {"LAN", "WAN"}
Networks == {"net1", "net2"}
ZoneLists == {NilList} \cup {List(s) : s \in SeqsUpTo(Zones, MaxList)}
NetworkLists == {NilList} \cup {List(s) : s \in SeqsUpTo(Networks, MaxList)}

\* The string fields of NetworkPolicy other than Action are passed through
\* in the same way as Action and are not listed.
NetworkPolicy(srcZones, dstZones, srcNets, dstNets) ==
    [isNil |-> FALSE, Action |-> "Accept", SourceZones |-> srcZones,
     DestinationZones |-> dstZones, SourceNetworks |-> srcNets,
     DestinationNetworks |-> dstNets]

NilPolicy ==
    [isNil |-> TRUE, Action |-> "", SourceZones |-> NilList, DestinationZones |-> NilList,
     SourceNetworks |-> NilList, DestinationNetworks |-> NilList]

\* After and Before are pointers to a RulePosition: Absent stands for nil.
FirewallRule(name, descr, position, after, before, policy, tid) ==
    [Name |-> name, Description |-> descr, IPFamily |-> "IPv4", Status |-> "Enable",
     Position |-> position, PolicyType |-> "Network", After |-> after, Before |-> before,
     NetworkPolicy |-> policy, TransactionID |-> tid]

SomeZones == List(<<"LAN">>)
SomeNetworks == List(<<"net1">>)

FirewallRuleInputs ==
    {FirewallRule(n, "d0", p, a, b,
                  NetworkPolicy(SomeZones, List(<<"WAN", "LAN">>), SomeNetworks, NilList), tid) :
        n \in LookupNames, p \in Positions, a \in {Absent} \cup RuleNames,
        b \in {Absent} \cup RuleNames, tid \in TransactionIDs}

FirewallRuleTemplates ==
    {FirewallRule("", "", "Top", Absent, Absent, NilPolicy, "")}
    \cup {FirewallRule("", "", "Top", Absent, Absent,
                       NetworkPolicy(z, SomeZones, SomeNetworks, SomeNetworks), "") : z \in ZoneLists}
    \cup {FirewallRule("", "", "Top", Absent, Absent,
                       NetworkPolicy(SomeZones, z, SomeNetworks, SomeNetworks), "") : z \in ZoneLists}
    \cup {FirewallRule("", "", "Top", Absent, Absent,
                       NetworkPolicy(SomeZones, SomeZones, n, SomeNetworks), "") : n \in NetworkLists}
    \cup {FirewallRule("", "", "Top", Absent, Absent,
                       NetworkPolicy(SomeZones, SomeZones, SomeNetworks, n), "") : n \in NetworkLists}

\* transactionid is an omitempty attribute: an empty id is not written.
MarshalFirewallRule(rule) ==
    [rule EXCEPT !.TransactionID = IF rule.TransactionID = "" THEN Absent ELSE rule.TransactionID]

createFirewallRulesBulkPayload(rule, operation) ==
    SetPayload(operation, "FirewallRule", "Name", MarshalFirewallRule(rule))

createFirewallRulesBulk(rule, operation, resp) ==
    IF resp.io \in {"payloadTmpFail", "payloadWriteFail"} THEN Err("error creating temporary file")
    ELSE IF resp.io = "responseTmpFail" THEN Err("error creating response temporary file")
    ELSE IF resp.io = "curlFail" THEN Err("error executing curl")
    ELSE IF resp.io # "xml" THEN Err("error unmarshaling")
    ELSE IF resp.Login # "Authentication Successful" THEN Err("authentication failed")
    ELSE IF resp.ErrorCode # "" THEN Err("Sophos API error")
    ELSE IF resp.StatusCode # "200" THEN Err("operation failed")
    ELSE Ok

CreateFirewallRulePayload(rule) == createFirewallRulesBulkPayload(rule, "add")

CreateFirewallRule(rule, resp) == createFirewallRulesBulk(rule, "add", resp)

ReadFirewallRule(name, resp) ==
    IF resp.io \in {"payloadTmpFail", "payloadWriteFail"} THEN {Err("error creating temporary file")}
    ELSE IF resp.io = "responseTmpFail" THEN {Err("error creating response temporary file")}
    ELSE IF resp.io = "curlFail" THEN {Err("error executing curl")}
    ELSE IF resp.io = "empty" THEN {Err("received empty response from Sophos API")}
    ELSE IF resp.io # "xml" THEN {Err("error unmarshaling")}
    ELSE IF resp.Login # "Authentication Successful" THEN {Err("authentication failed")}
    ELSE IF resp.ErrorCode # "" THEN {Err("Sophos API error")}
    ELSE LET i == FirstMatch(resp.Entities, name) IN
         IF i # 0
         THEN {Found(resp.Entities[i])}
         ELSE {Ok}

UpdateFirewallRulePayload(rule) ==
    SetPayload("update", "FirewallRule", "Name",
               MarshalFirewallRule([rule EXCEPT !.TransactionID = ""]))

UpdateFirewallRule(rule, resp) ==
    IF resp.io \in {"payloadTmpFail", "payloadWriteFail"} THEN Err("error creating temporary file")
    ELSE IF resp.io = "responseTmpFail" THEN Err("error creating response temporary file")
    ELSE IF resp.io = "curlFail" THEN Err("error executing curl")
    ELSE IF resp.io # "xml" THEN Err("error unmarshaling")
    ELSE IF resp.Login # "Authentication Successful" THEN Err("authentication failed")
    ELSE IF resp.ErrorCode # "" THEN Err("Sophos API error")
    ELSE Ok

DeleteFirewallRule(name, resp) ==
    IF resp.io \in {"payloadTmpFail", "payloadWriteFail"} THEN Err("error creating temporary file")
    ELSE IF resp.io = "responseTmpFail" THEN Err("error creating response temporary file")
    ELSE IF resp.io = "curlFail" THEN Err("error executing curl")
    ELSE IF resp.io = "empty" THEN Err("received empty response from Sophos API")
    ELSE IF resp.io # "xml" THEN Err("error unmarshaling")
    ELSE IF resp.Login # "Authentication Successful" THEN Err("authentication failed")
    ELSE IF resp.ErrorCode # "" THEN Err("Sophos API error")
    ELSE Ok

CallCreateIPHostGroup ==
    /\ pc = "idle"
    /\ \E e \in IPHostGroupInputs, resp \in SetResponses :
            Finish("adapter", "IPHostGroup", "Create", e.Name, e,
                   Submitted(resp, CreateIPHostGroupPayload(e)), resp,
                   CreateIPHostGroup(e, resp), NoState, <<>>)

CallReadIPHostGroup ==
    /\ pc = "idle"
    /\ \E name \in LookupNames, resp \in GetResponses(Collections(IPHostGroupTemplates)) :
            \E res \in ReadIPHostGroup(name, resp) :
                Finish("adapter", "IPHostGroup", "Read", name, Null,
                       Submitted(resp, KeyPayload("Get", "IPHostGroup", name)), resp,
                       res, NoState, <<>>)

CallUpdateIPHostGroup ==
    /\ pc = "idle"
    /\ \E e \in IPHostGroupInputs, resp \in SetResponses :
            Finish("adapter", "IPHostGroup", "Update", e.Name, e,
                   Submitted(resp, UpdateIPHostGroupPayload(e)), resp,
                   UpdateIPHostGroup(e, resp), NoState, <<>>)

CallDeleteIPHostGroup ==
    /\ pc = "idle"
    /\ \E name \in LookupNames, resp \in SetResponses :
            Finish("adapter", "IPHostGroup", "Delete", name, Null,
                   Submitted(resp, KeyPayload("Remove", "IPHostGroup", name)), resp,
                   DeleteIPHostGroup(name, resp), NoState, <<>>)

CallCreateMACHost ==
    /\ pc = "idle"
    /\ \E e \in MACHostInputs, resp \in SetResponses :
            Finish("adapter", "MACHost", "Create", e.Name, e,
                   Submitted(resp, CreateMACHostPayload(e)), resp,
                   CreateMACHost(e, resp), NoState, <<>>)

CallReadMACHost ==
    /\ pc = "idle"
    /\ \E name \in LookupNames, resp \in GetResponses(Collections(MACHostTemplates)) :
            \E res \in ReadMACHost(name, resp) :
                Finish("adapter", "MACHost", "Read", name, Null,
                       Submitted(resp, KeyPayload("Get", "MACHost", name)), resp,
                       res, NoState, <<>>)

CallUpdateMACHost ==
    /\ pc = "idle"
    /\ \E e \in MACHostInputs, resp \in SetResponses :
            Finish("adapter", "MACHost", "Update", e.Name, e,
                   Submitted(resp, UpdateMACHostPayload(e)), resp,
                   UpdateMACHost(e, resp), NoState, <<>>)

CallDeleteMACHost ==
    /\ pc = "idle"
    /\ \E name \in LookupNames, resp \in SetResponses :
            Finish("adapter", "MACHost", "Delete", name, Null,
                   Submitted(resp, KeyPayload("Remove", "MACHost", name)), resp,
                   DeleteMACHost(name, resp), NoState, <<>>)

CallCreateFirewallRule ==
    /\ pc = "idle"
    /\ \E e \in FirewallRuleInputs, resp \in SetResponses :
            Finish("adapter", "FirewallRule", "Create", e.Name, e,
                   Submitted(resp, CreateFirewallRulePayload(e)), resp,
                   CreateFirewallRule(e, resp), NoState, <<>>)

CallReadFirewallRule ==
    /\ pc = "idle"
    /\ \E name \in LookupNames, resp \in GetResponses(Collections(FirewallRuleTemplates)) :
            \E res \in ReadFirewallRule(name, resp) :
                Finish("adapter", "FirewallRule", "Read", name, Null,
                       Submitted(resp, KeyPayload("Get", "FirewallRule", name)), resp,
                       res, NoState, <<>>)

CallUpdateFirewallRule ==
    /\ pc = "idle"
    /\ \E e \in FirewallRuleInputs, resp \in SetResponses :
            Finish("adapter", "FirewallRule", "Update", e.Name, e,
                   Submitted(resp, UpdateFirewallRulePayload(e)), resp,
                   UpdateFirewallRule(e, resp), NoState, <<>>)

CallDeleteFirewallRule ==
    /\ pc = "idle"
    /\ \E name \in LookupNames, resp \in SetResponses :
            Finish("adapter", "FirewallRule", "Delete", name, Null,
                   Submitted(resp, KeyPayload("Remove", "FirewallRule", name)), resp,
                   DeleteFirewallRule(name, resp), NoState, <<>>)

(***************************************************************************)
(* Host-side values (terraform-plugin-framework types)                     *)
(***************************************************************************)
\* types.String: null or a value; ValueString() of null is "".
TFNull == [isNull |-> TRUE, v |-> ""]
TFStr(v) == [isNull |-> FALSE, v |-> v]

Diag(severity, summary, value) == [severity |-> severity, summary |-> summary, value |-> value]

\* What a handler leaves behind: the requests it made, the last adapter
\* result, the state it wrote (NoState when it wrote none) and diagnostics.
Out(reqs, res, st, dg) == [reqs |-> reqs, res |-> res, st |-> st, dg |-> dg]

\* Comma-separated text is held as the sequence of its comma-delimited
\* parts (what strings.Split returns): the empty text is <<"">>.
EmptyText == <<"">>
TFText(t) == [isNull |-> FALSE, v |-> t]
TFNullText == [isNull |-> TRUE, v |-> EmptyText]

\* strings.Join(list, ",")
Join(list) == IF Len(list) = 0 THEN EmptyText ELSE list

TrimSpace(part) ==
    CASE part = " AA:BB:CC:DD:EE:FF" -> "AA:BB:CC:DD:EE:FF"
      [] part = " " -> ""
      [] OTHER -> part

\* Elements of s in order of first occurrence.
RECURSIVE Unique(_)
Unique(s) ==
    IF Len(s) = 0 THEN <<>>
    ELSE LET front == Unique(SubSeq(s, 1, Len(s) - 1))
             last == s[Len(s)]
         IN IF last \in Range(front) THEN front ELSE Append(front, last)

RECURSIVE TrimmedNonEmpty(_)
TrimmedNonEmpty(parts) ==
    IF Len(parts) = 0 THEN <<>>
    ELSE LET t == TrimSpace(Head(parts)) IN
         IF t # "" THEN <<t>> \o TrimmedNonEmpty(Tail(parts))
         ELSE TrimmedNonEmpty(Tail(parts))

\* A slice built by append is nil until something is appended.
Appended(s) == IF Len(s) = 0 THEN NilList ELSE List(s)

\* Sensitivity variant for C30: repeated entries are kept.
parseMACListKeepsDuplicates(macList) ==
    IF macList = EmptyText THEN NilList
    ELSE Appended(TrimmedNonEmpty(macList))

parseMACList(macList) ==
    IF macList = EmptyText THEN NilList
    ELSE Appended(Unique(TrimmedNonEmpty(macList)))

\* The earlier parseMACList returns an empty slice, not nil, for the empty
\* text.
parseMACListLegacy(macList) ==
    IF macList = EmptyText THEN List(<<>>)
    ELSE Appended(Unique(TrimmedNonEmpty(macList)))

\* Comma-delimited parts and the texts made of up to MaxList of them.
MACListParts ==
    {"", " ", "AA:BB:CC:DD:EE:FF", " AA:BB:CC:DD:EE:FF", "11:22:33:44:55:66"}

MACListTexts == SeqsUpTo(MACListParts, MaxList) \ {<<>>}

\* Characters of the MAC address samples.
Chars(s) ==
    CASE s = "AA:BB:CC:DD:EE:FF" ->
            <<"A","A",":","B","B",":","C","C",":","D","D",":","E","E",":","F","F">>
      [] s = "11:22:33:44:55:66" ->
            <<"1","1",":","2","2",":","3","3",":","4","4",":","5","5",":","6","6">>
      [] s = "00-16-76-49-33-a1" ->
            <<"0","0","-","1","6","-","7","6","-","4","9","-","3","3","-","a","1">>
      [] s = "00:16:76:49:33" ->
            <<"0","0",":","1","6",":","7","6",":","4","9",":","3","3">>
      [] s = "GG:BB:CC:DD:EE:FF" ->
            <<"G","G",":","B","B",":","C","C",":","D","D",":","E","E",":","F","F">>
      [] s = "AABBCCDDEEFF" ->
            <<"A","A","B","B","C","C","D","D","E","E","F","F">>
      [] s = "AA:BB:CC:DD:EE:FF:00" ->
            <<"A","A",":","B","B",":","C","C",":","D","D",":","E","E",":","F","F",":","0","0">>
      [] s = " AA:BB:CC:DD:EE:FF" ->
            <<" ","A","A",":","B","B",":","C","C",":","D","D",":","E","E",":","F","F">>
      [] s = "" -> <<>>

ValidMACs == {"AA:BB:CC:DD:EE:FF", "11:22:33:44:55:66", "00-16-76-49-33-a1"}
MalformedMACs == {"00:16:76:49:33", "GG:BB:CC:DD:EE:FF", "AABBCCDDEEFF", "AA:BB:CC:DD:EE:FF:00", ""}

HexDigits ==
    {"0", "1", "2", "3", "4", "5", "6", "7", "8", "9",
     "A", "B", "C", "D", "E", "F", "a", "b", "c", "d", "e", "f"}

\* ^([0-9A-Fa-f]{2}[:-]){5}([0-9A-Fa-f]{2})$ : five groups of two hex digits
\* and a separator, then two hex digits.
isValidMACAddress(mac) ==
    LET c == Chars(mac) IN
    /\ Len(c) = 5 * 3 + 2
    /\ \A i \in 1..Len(c) :
            IF i % 3 = 0 THEN c[i] \in {":", "-"} ELSE c[i] \in HexDigits

\* strings.ToUpper of the type names in use.
ToUpper(s) ==
    CASE s \in {"MACAddress", "macaddress", "MACADDRESS"} -> "MACADDRESS"
      [] s \in {"MACLIST", "maclist"} -> "MACLIST"
      [] OTHER -> s

(***************************************************************************)
(* macHostResource: Create and Update                                      *)
(***************************************************************************)
macHostResourceModel(name, descr, type, mac, list) ==
    [Name |-> name, Description |-> descr, Type |-> type, MACAddress |-> mac,
     ListOfMACAddresses |-> list]

PlanTexts ==
    {EmptyText,
     <<"AA:BB:CC:DD:EE:FF">>,
     <<"AA:BB:CC:DD:EE:FF", "AA:BB:CC:DD:EE:FF", "11:22:33:44:55:66">>,
     <<" AA:BB:CC:DD:EE:FF", "11:22:33:44:55:66", "">>,
     <<"11:22:33:44:55:66", "00:16:76:49:33">>}

MACHostPlans ==
    {macHostResourceModel(TFStr("web1"), d, TFStr(t), m, l) :
        d \in {TFNull, TFStr("d0")},
        t \in {"MACAddress", "macaddress", "MACLIST", "maclist", "Other"},
        m \in {TFNull} \cup {TFStr(x) : x \in ValidMACs \cup MalformedMACs},
        l \in {TFNullText} \cup {TFText(x) : x \in PlanTexts}}

\* Sensitivity variant for C27: the state is written whatever the adapter
\* returned.
AfterCallStateAlways(payload, resp, res, summary, st) ==
    IF res.err # ""
    THEN Out(Submitted(resp, payload), res, st, <<Diag("error", summary, res.err)>>)
    ELSE Out(Submitted(resp, payload), res, st, <<>>)

\* Outcome of a handler that called the adapter once.
AfterCall(payload, resp, res, summary, st) ==
    IF res.err # ""
    THEN Out(Submitted(resp, payload), res, NoState, <<Diag("error", summary, res.err)>>)
    ELSE Out(Submitted(resp, payload), res, st, <<>>)

\* macHostResource.Create as built on the machost client.
macHostResourceCreate(plan, resp) ==
    LET macAddresses == parseMACList(plan.ListOfMACAddresses.v)
        macHost ==
            IF plan.Type.v = "MACAddress"
            THEN MACHost(plan.Name.v, plan.Description.v, plan.Type.v, plan.MACAddress.v,
                         NilList, "")
            ELSE MACHost(plan.Name.v, plan.Description.v, "MACLIST", "", macAddresses, "")
        st == IF plan.Type.v = "MACLIST" /\ Len(macAddresses.items) > 0
              THEN [plan EXCEPT !.ListOfMACAddresses = TFText(Join(macAddresses.items)),
                                !.MACAddress = TFNull]
              ELSE plan
    IN AfterCall(CreateMACHostPayload(macHost), resp, CreateMACHost(macHost, resp),
                 "Error creating MAC Host", st)

\* macHostResource.Update as built on the machost client.
macHostResourceUpdate(plan, resp) ==
    LET macAddresses == parseMACList(plan.ListOfMACAddresses.v)
        typeUpper == ToUpper(plan.Type.v)
        macHost ==
            IF typeUpper = "MACADDRESS"
            THEN MACHost(plan.Name.v, plan.Description.v, "MACAddress", plan.MACAddress.v,
                         NilList, "")
            ELSE IF typeUpper = "MACLIST"
            THEN MACHost(plan.Name.v, plan.Description.v, "MACLIST", "", macAddresses, "")
            ELSE MACHost(plan.Name.v, plan.Description.v, plan.Type.v, "", NilList, "")
        st ==
            IF typeUpper = "MACADDRESS"
            THEN [plan EXCEPT !.Type = TFStr("MACAddress"), !.ListOfMACAddresses = TFNullText]
            ELSE IF typeUpper = "MACLIST"
            THEN [plan EXCEPT !.Type = TFStr("MACLIST"), !.MACAddress = TFNull,
                              !.ListOfMACAddresses =
                                  IF Len(macAddresses.items) > 0
                                  THEN TFText(Join(macAddresses.items))
                                  ELSE plan.ListOfMACAddresses]
            ELSE plan
    IN AfterCall(UpdateMACHostPayload(macHost), resp, UpdateMACHost(macHost, resp),
                 "Error updating MAC Host", st)

\* A handler that returned before calling the adapter.
NotCalled == [err |-> Absent, found |-> FALSE, entity |-> Null]

Rejected(summary, value) == Out(<<>>, NotCalled, NoState, <<Diag("error", summary, value)>>)

\* First element of a list that is not a valid MAC address, "" when all are.
FirstInvalid(macs) ==
    IF \E i \in 1..Len(macs) : ~isValidMACAddress(macs[i])
    THEN macs[CHOOSE i \in 1..Len(macs) :
                /\ ~isValidMACAddress(macs[i])
                /\ \A j \in 1..(i - 1) : isValidMACAddress(macs[j])]
    ELSE ""

AllValid(macs) == \A i \in 1..Len(macs) : isValidMACAddress(macs[i])

\* macHostResource.Create of the revision that validates its input.
macHostResourceCreateLegacy(plan, resp) ==
    LET hostType == ToUpper(plan.Type.v)
        description == IF ~plan.Description.isNull THEN plan.Description.v ELSE ""
        macAddresses == parseMACListLegacy(plan.ListOfMACAddresses.v)
    IN
    IF hostType = "MACADDRESS" THEN
        IF plan.MACAddress.isNull
        THEN Rejected("Missing MAC Address", "")
        ELSE IF ~isValidMACAddress(plan.MACAddress.v)
        THEN Rejected("Invalid MAC Address Format", plan.MACAddress.v)
        ELSE LET macHost == MACHost(plan.Name.v, description, "MACAddress",
                                    plan.MACAddress.v, NilList, "")
             IN AfterCall(CreateMACHostPayload(macHost), resp, CreateMACHost(macHost, resp),
                          "Error creating MAC Host",
                          [plan EXCEPT !.MACAddress = TFStr(plan.MACAddress.v),
                                       !.ListOfMACAddresses = TFNullText,
                                       !.Type = TFStr("MACAddress")])
    ELSE IF hostType = "MACLIST" THEN
        IF plan.ListOfMACAddresses.isNull \/ plan.ListOfMACAddresses.v = EmptyText
        THEN LET macHost == MACHost(plan.Name.v, description, "MACLIST", "", List(<<>>), "")
             IN AfterCall(CreateMACHostPayload(macHost), resp, CreateMACHost(macHost, resp),
                          "Error creating MAC Host",
                          [plan EXCEPT !.ListOfMACAddresses = TFText(EmptyText),
                                       !.MACAddress = TFNull, !.Type = TFStr("MACLIST")])
        ELSE IF ~AllValid(macAddresses.items)
        THEN Rejected("Invalid MAC Address Format", FirstInvalid(macAddresses.items))
        ELSE LET macHost == MACHost(plan.Name.v, description, "MACLIST", "", macAddresses, "")
             IN AfterCall(CreateMACHostPayload(macHost), resp, CreateMACHost(macHost, resp),
                          "Error creating MAC Host",
                          [plan EXCEPT !.ListOfMACAddresses = TFText(Join(macAddresses.items)),
                                       !.MACAddress = TFNull, !.Type = TFStr("MACLIST")])
    ELSE Rejected("Invalid Type", "")

\* macHostResource.Update of the same revision.
macHostResourceUpdateLegacy(plan, resp) ==
    LET hostType == ToUpper(plan.Type.v)
        description == IF ~plan.Description.isNull THEN plan.Description.v ELSE ""
        macAddresses == parseMACListLegacy(plan.ListOfMACAddresses.v)
    IN
    IF hostType = "MACADDRESS" THEN
        IF plan.MACAddress.isNull
        THEN Rejected("Missing MAC Address", "")
        ELSE LET macHost == MACHost(plan.Name.v, description, "MACAddress",
                                    plan.MACAddress.v, NilList, "")
             IN AfterCall(UpdateMACHostPayload(macHost), resp, UpdateMACHost(macHost, resp),
                          "Error updating MAC Host",
                          [plan EXCEPT !.MACAddress = TFStr(plan.MACAddress.v),
                                       !.ListOfMACAddresses = TFNullText,
                                       !.Type = TFStr("MACAddress")])
    ELSE IF hostType = "MACLIST" THEN
        IF plan.ListOfMACAddresses.isNull
        THEN LET macHost == MACHost(plan.Name.v, description, "MACLIST", "", List(<<>>), "")
             IN AfterCall(UpdateMACHostPayload(macHost), resp, UpdateMACHost(macHost, resp),
                          "Error updating MAC Host",
                          [plan EXCEPT !.ListOfMACAddresses = TFText(EmptyText),
                                       !.MACAddress = TFNull, !.Type = TFStr("MACLIST")])
        ELSE LET macHost == MACHost(plan.Name.v, description, "MACLIST", "", macAddresses, "")
             IN AfterCall(UpdateMACHostPayload(macHost), resp, UpdateMACHost(macHost, resp),
                          "Error updating MAC Host",
                          [plan EXCEPT !.ListOfMACAddresses = TFText(Join(macAddresses.items)),
                                       !.MACAddress = TFNull, !.Type = TFStr("MACLIST")])
    ELSE Rejected("Invalid Type", "")

\* A handler action: the outcome becomes the observable state.
Handled(layer, kind, op, name, input, resp, out) ==
    Finish(layer, kind, op, name, input, out.reqs, resp, out.res, out.st, out.dg)

CallmacHostResourceCreate ==
    /\ pc = "idle"
    /\ \E plan \in MACHostPlans, resp \in SetResponses :
            Handled("resource", "MACHost", "Create", plan.Name.v, plan, resp,
                    macHostResourceCreate(plan, resp))

CallmacHostResourceUpdate ==
    /\ pc = "idle"
    /\ \E plan \in MACHostPlans, resp \in SetResponses :
            Handled("resource", "MACHost", "Update", plan.Name.v, plan, resp,
                    macHostResourceUpdate(plan, resp))

CallmacHostResourceCreateLegacy ==
    /\ pc = "idle"
    /\ \E plan \in MACHostPlans, resp \in SetResponses :
            Handled("resourceLegacy", "MACHost", "Create", plan.Name.v, plan, resp,
                    macHostResourceCreateLegacy(plan, resp))

CallmacHostResourceUpdateLegacy ==
    /\ pc = "idle"
    /\ \E plan \in MACHostPlans, resp \in SetResponses :
            Handled("resourceLegacy", "MACHost", "Update", plan.Name.v, plan, resp,
                    macHostResourceUpdateLegacy(plan, resp))

(***************************************************************************)
(* Read handlers of resources and data sources                             *)
(*                                                                         *)
(* The source tree holds two revisions of the MAC host resource: one built *)
(* on the machost client, and an earlier one (suffix Legacy here) built on *)
(* SophosClient, whose MAC host operations have the same body as the       *)
(* machost client's.  Data sources call the same adapter reads.            *)
(***************************************************************************)
\* Sensitivity variant for C16: a missing entity leaves the state untouched.
ReadHandlerNoPrune(res, reqs, summary, whenMissing, st) ==
    IF res.err # ""
    THEN Out(reqs, res, NoState, <<Diag("error", summary, res.err)>>)
    ELSE IF ~res.found
    THEN Out(reqs, res, NoState, whenMissing.dg)
    ELSE Out(reqs, res, st, <<>>)

\* The common frame of a Read handler: an adapter error becomes an error
\* diagnostic, a missing entity gives whenMissing, an entity gives the state st.
ReadHandler(res, reqs, summary, whenMissing, st) ==
    IF res.err # ""
    THEN Out(reqs, res, NoState, <<Diag("error", summary, res.err)>>)
    ELSE IF ~res.found
    THEN Out(reqs, res, whenMissing.st, whenMissing.dg)
    ELSE Out(reqs, res, st, <<>>)

Pruned == [st |-> Removed, dg |-> <<>>]

\* Sensitivity variant for C29: a missing entity is dropped without a
\* diagnostic, as the resource handlers do.
MissingPruned(summary, name) == [st |-> Removed, dg |-> <<>>]

Missing(summary, name) == [st |-> NoState, dg |-> <<Diag("error", summary, name)>>]

\* Prior states of the MAC host resource: a single address, or a list.
MACHostPriors ==
    {macHostResourceModel(TFStr(n), TFNull, TFStr("MACAddress"),
                          TFStr("AA:BB:CC:DD:EE:FF"), TFNullText) : n \in LookupNames}
    \cup {macHostResourceModel(TFStr(n), TFNull, TFStr("MACLIST"), TFNull,
                               TFText(<<"AA:BB:CC:DD:EE:FF">>)) : n \in LookupNames}

\* Sensitivity variant for C18: the MACLIST branch leaves mac_address alone.
macHostResourceReadStateKeepsAddress(prior, macHost) ==
    LET typeUpper == ToUpper(macHost.Type)
        common == [prior EXCEPT
                     !.Name = TFStr(macHost.Name),
                     !.Description = IF macHost.Description # ""
                                     THEN TFStr(macHost.Description) ELSE TFNull,
                     !.Type = TFStr(macHost.Type)]
    IN IF typeUpper = "MACADDRESS"
       THEN [common EXCEPT
               !.MACAddress = IF macHost.MACAddress # ""
                              THEN TFStr(macHost.MACAddress) ELSE TFNull,
               !.ListOfMACAddresses = TFNullText]
       ELSE IF typeUpper = "MACLIST"
       THEN [common EXCEPT
               !.ListOfMACAddresses =
                   IF ~macHost.ListOfMACAddresses.isNil
                      /\ Len(macHost.ListOfMACAddresses.items) > 0
                   THEN TFText(Join(Unique(macHost.ListOfMACAddresses.items)))
                   ELSE TFText(EmptyText)]
       ELSE common


macHostResourceReadState(prior, macHost) ==
    LET typeUpper == ToUpper(macHost.Type)
        common == [prior EXCEPT
                     !.Name = TFStr(macHost.Name),
                     !.Description = IF macHost.Description # ""
                                     THEN TFStr(macHost.Description) ELSE TFNull,
                     !.Type = TFStr(macHost.Type)]
    IN IF typeUpper = "MACADDRESS"
       THEN [common EXCEPT
               !.MACAddress = IF macHost.MACAddress # ""
                              THEN TFStr(macHost.MACAddress) ELSE TFNull,
               !.ListOfMACAddresses = TFNullText]
       ELSE IF typeUpper = "MACLIST"
       THEN [common EXCEPT
               !.MACAddress = TFNull,
               !.ListOfMACAddresses =
                   IF ~macHost.ListOfMACAddresses.isNil
                      /\ Len(macHost.ListOfMACAddresses.items) > 0
                   THEN TFText(Join(Unique(macHost.ListOfMACAddresses.items)))
                   ELSE TFText(EmptyText)]
       ELSE common

macHostResourceRead(prior, resp) ==
    {ReadHandler(res,
                 Submitted(resp, KeyPayload("Get", "MACHost", prior.Name.v)),
                 "Error reading MAC Host", Pruned,
                 IF res.found THEN macHostResourceReadState(prior, res.entity) ELSE NoState) :
        res \in ReadMACHost(prior.Name.v, resp)}

macHostDataSourceModel(name) ==
    [Name |-> TFStr(name), Description |-> TFNull, Type |-> TFNull, MACAddress |-> TFNull,
     ListOfMACAddresses |-> NilList]

macHostDataSourceReadState(config, macHost) ==
    LET common == [config EXCEPT
                     !.Type = TFStr(macHost.Type),
                     !.Description = IF macHost.Description # ""
                                     THEN TFStr(macHost.Description) ELSE TFNull]
    IN IF macHost.Type = "MACAddress"
       THEN [common EXCEPT !.MACAddress = TFStr(macHost.MACAddress),
                           !.ListOfMACAddresses = NilList]
       ELSE IF macHost.Type = "MACLIST"
       THEN [common EXCEPT !.MACAddress = TFNull,
                           !.ListOfMACAddresses =
                               IF ~macHost.ListOfMACAddresses.isNil
                               THEN List(macHost.ListOfMACAddresses.items) ELSE NilList]
       ELSE [common EXCEPT !.MACAddress = TFNull, !.ListOfMACAddresses = NilList]

macHostDataSourceRead(config, resp) ==
    {ReadHandler(res,
                 Submitted(resp, KeyPayload("Get", "MACHost", config.Name.v)),
                 "Error reading MAC Host", Missing("MAC Host not found", config.Name.v),
                 IF res.found THEN macHostDataSourceReadState(config, res.entity) ELSE NoState) :
        res \in ReadMACHost(config.Name.v, resp)}

\* slices.Sort on host names.
HostRank(h) == IF h = "h1" THEN 1 ELSE 2

Sort(s) ==
    CHOOSE t \in [1..Len(s) -> Range(s)] :
        /\ \A x \in Range(s) :
              Cardinality({i \in 1..Len(s) : s[i] = x}) = Cardinality({i \in 1..Len(s) : t[i] = x})
        /\ \A i \in 1..(Len(s) - 1) : HostRank(t[i]) <= HostRank(t[i + 1])

ipHostGroupResourceModel(name, descr, family, hosts) ==
    [Name |-> name, Description |-> descr, IPFamily |-> family, Hosts |-> hosts]

ipHostGroupResourceReadState(ipHostGroup) ==
    ipHostGroupResourceModel(
        TFStr(ipHostGroup.Name), TFStr(ipHostGroup.Description), TFStr(ipHostGroup.IPFamily),
        IF ~ipHostGroup.HostList.isNil /\ Len(ipHostGroup.HostList.items) > 0
        THEN List(Sort(ipHostGroup.HostList.items))
        ELSE List(<<>>))

ipHostGroupResourceRead(prior, resp) ==
    {ReadHandler(res,
                 Submitted(resp, KeyPayload("Get", "IPHostGroup", prior.Name.v)),
                 "Error reading IP Host", Pruned,
                 IF res.found THEN ipHostGroupResourceReadState(res.entity) ELSE NoState) :
        res \in ReadIPHostGroup(prior.Name.v, resp)}

IPHostGroupPriors ==
    {ipHostGroupResourceModel(TFStr(n), TFNull, TFNull, NilList) : n \in LookupNames}

\* The policy's string attributes follow Action.
apiToModelFirewallRule(rule) ==
    [Name |-> TFStr(rule.Name), Description |-> TFStr(rule.Description),
     IPFamily |-> TFStr(rule.IPFamily), Status |-> TFStr(rule.Status),
     Position |-> TFStr(rule.Position), PolicyType |-> TFStr(rule.PolicyType),
     AfterRule |-> IF rule.After # Absent THEN TFStr(rule.After) ELSE TFNull,
     BeforeRule |-> IF rule.Before # Absent THEN TFStr(rule.Before) ELSE TFNull,
     Action |-> IF ~rule.NetworkPolicy.isNil THEN TFStr(rule.NetworkPolicy.Action) ELSE TFNull,
     SourceZones |->
        IF ~rule.NetworkPolicy.isNil /\ ~rule.NetworkPolicy.SourceZones.isNil
        THEN List(rule.NetworkPolicy.SourceZones.items) ELSE NilList,
     DestinationZones |->
        IF ~rule.NetworkPolicy.isNil /\ ~rule.NetworkPolicy.DestinationZones.isNil
        THEN List(rule.NetworkPolicy.DestinationZones.items) ELSE NilList,
     SourceNetworks |->
        IF ~rule.NetworkPolicy.isNil /\ ~rule.NetworkPolicy.SourceNetworks.isNil
        THEN List(rule.NetworkPolicy.SourceNetworks.items) ELSE NilList,
     DestinationNetworks |->
        IF ~rule.NetworkPolicy.isNil /\ ~rule.NetworkPolicy.DestinationNetworks.isNil
        THEN List(rule.NetworkPolicy.DestinationNetworks.items) ELSE NilList]

firewallRuleResourceRead(prior, resp) ==
    {ReadHandler(res,
                 Submitted(resp, KeyPayload("Get", "FirewallRule", prior.Name.v)),
                 "Error reading firewall rule", Pruned,
                 IF res.found THEN apiToModelFirewallRule(res.entity) ELSE NoState) :
        res \in ReadFirewallRule(prior.Name.v, resp)}

FirewallRulePriors ==
    {apiToModelFirewallRule(FirewallRule(n, "d0", "Top", Absent, Absent, NilPolicy, "")) :
        n \in LookupNames}

ipHostResourceModel(name) ==
    [Name |-> TFStr(name), IPFamily |-> TFNull, HostType |-> TFNull, IPAddress |-> TFNull,
     Subnet |-> TFNull, StartIPAddress |-> TFNull, EndIPAddress |-> TFNull,
     ListOfIPAddresses |-> TFNull, HostGroups |-> NilList]

ipHostDataSourceReadState(config, ipHost) ==
    LET common == [config EXCEPT !.Name = TFStr(ipHost.Name),
                                 !.IPFamily = TFStr(ipHost.IPFamily),
                                 !.HostType = TFStr(ipHost.HostType),
                                 !.HostGroups =
                                     IF ~ipHost.HostGroupList.isNil
                                        /\ Len(ipHost.HostGroupList.items) > 0
                                     THEN List(ipHost.HostGroupList.items)
                                     ELSE List(<<>>)]
    IN CASE ipHost.HostType = "IP" ->
                [common EXCEPT !.IPAddress = TFStr(ipHost.IPAddress), !.Subnet = TFNull,
                               !.StartIPAddress = TFNull, !.EndIPAddress = TFNull,
                               !.ListOfIPAddresses = TFNull]
         [] ipHost.HostType = "Network" ->
                [common EXCEPT !.IPAddress = TFStr(ipHost.IPAddress),
                               !.Subnet = TFStr(ipHost.Subnet),
                               !.StartIPAddress = TFNull, !.EndIPAddress = TFNull,
                               !.ListOfIPAddresses = TFNull]
         [] ipHost.HostType = "IPRange" ->
                [common EXCEPT !.IPAddress = TFNull, !.Subnet = TFNull,
                               !.StartIPAddress = TFStr(ipHost.StartIPAddress),
                               !.EndIPAddress = TFStr(ipHost.EndIPAddress),
                               !.ListOfIPAddresses = TFNull]
         [] ipHost.HostType = "IPList" ->
                [common EXCEPT !.IPAddress = TFNull, !.Subnet = TFNull,
                               !.StartIPAddress = TFNull, !.EndIPAddress = TFNull,
                               !.ListOfIPAddresses = TFStr(ipHost.ListOfIPAddresses)]
         [] ipHost.HostType = "System Host" ->
                [common EXCEPT !.IPAddress = TFNull, !.Subnet = TFNull,
                               !.StartIPAddress = TFNull, !.EndIPAddress = TFNull,
                               !.ListOfIPAddresses = TFNull]
         [] OTHER -> common

ipHostDataSourceRead(config, resp) ==
    {ReadHandler(res,
                 Submitted(resp, KeyPayload("Get", "IPHost", config.Name.v)),
                 "Error reading IP Host", Missing("IP Host not found", config.Name.v),
                 IF res.found THEN ipHostDataSourceReadState(config, res.entity) ELSE NoState) :
        res \in ReadIPHost(config.Name.v, resp)}

\* ipHostResource.Read: every string attribute is set from the entity, the
\* host groups are copied in the order the adapter returned them.
ipHostResourceReadState(prior, ipHost) ==
    [prior EXCEPT !.IPFamily = TFStr(ipHost.IPFamily),
                  !.HostType = TFStr(ipHost.HostType),
                  !.IPAddress = TFStr(ipHost.IPAddress),
                  !.Subnet = TFStr(ipHost.Subnet),
                  !.StartIPAddress = TFStr(ipHost.StartIPAddress),
                  !.EndIPAddress = TFStr(ipHost.EndIPAddress),
                  !.ListOfIPAddresses = TFStr(ipHost.ListOfIPAddresses),
                  !.HostGroups =
                      IF ~ipHost.HostGroupList.isNil /\ Len(ipHost.HostGroupList.items) > 0
                      THEN List(ipHost.HostGroupList.items)
                      ELSE List(<<>>)]

ipHostResourceRead(prior, resp) ==
    {ReadHandler(res,
                 Submitted(resp, KeyPayload("Get", "IPHost", prior.Name.v)),
                 "Error reading IP Host", Pruned,
                 IF res.found THEN ipHostResourceReadState(prior, res.entity) ELSE NoState) :
        res \in ReadIPHost(prior.Name.v, resp)}

\* Remote IP hosts read by the resource: every field populated.
IPHostStored ==
    {IPHost("", "", t, TypeFields, "", g) :
        t \in HostTypes, g \in {NilList, List(<<"g2", "g1", "g2">>)}}

\* ipHostGroupDataSource.Read: the hosts are copied in the order the adapter
\* returned them.
ipHostGroupDataSourceReadState(config, ipHostGroup) ==
    [config EXCEPT !.Name = TFStr(ipHostGroup.Name),
                   !.IPFamily = TFStr(ipHostGroup.IPFamily),
                   !.Description = TFStr(ipHostGroup.Description),
                   !.Hosts = IF ~ipHostGroup.HostList.isNil
                                /\ Len(ipHostGroup.HostList.items) > 0
                             THEN List(ipHostGroup.HostList.items)
                             ELSE List(<<>>)]

ipHostGroupDataSourceRead(config, resp) ==
    {ReadHandler(res,
                 Submitted(resp, KeyPayload("Get", "IPHostGroup", config.Name.v)),
                 "Error reading IP Host Group",
                 Missing("IP Host Group not found", config.Name.v),
                 IF res.found THEN ipHostGroupDataSourceReadState(config, res.entity)
                 ELSE NoState) :
        res \in ReadIPHostGroup(config.Name.v, resp)}

CallmacHostResourceRead ==
    /\ pc = "idle"
    /\ \E prior \in MACHostPriors, resp \in GetResponses(Collections(MACHostTemplates)) :
            \E out \in macHostResourceRead(prior, resp) :
                Handled("resource", "MACHost", "Read", prior.Name.v, prior, resp, out)

CallmacHostDataSourceRead ==
    /\ pc = "idle"
    /\ \E name \in LookupNames, resp \in GetResponses(Collections(MACHostTemplates)) :
            \E out \in macHostDataSourceRead(macHostDataSourceModel(name), resp) :
                Handled("datasource", "MACHost", "Read", name, macHostDataSourceModel(name),
                        resp, out)

CallipHostGroupResourceRead ==
    /\ pc = "idle"
    /\ \E prior \in IPHostGroupPriors, resp \in GetResponses(Collections(IPHostGroupTemplates)) :
            \E out \in ipHostGroupResourceRead(prior, resp) :
                Handled("resource", "IPHostGroup", "Read", prior.Name.v, prior, resp, out)

CallfirewallRuleResourceRead ==
    /\ pc = "idle"
    /\ \E prior \in FirewallRulePriors, resp \in GetResponses(Collections(FirewallRuleTemplates)) :
            \E out \in firewallRuleResourceRead(prior, resp) :
                Handled("resource", "FirewallRule", "Read", prior.Name.v, prior, resp, out)

CallipHostDataSourceRead ==
    /\ pc = "idle"
    /\ \E name \in LookupNames, resp \in GetResponses(Collections(IPHostTemplates)) :
            \E out \in ipHostDataSourceRead(ipHostResourceModel(name), resp) :
                Handled("datasource", "IPHost", "Read", name, ipHostResourceModel(name),
                        resp, out)

CallipHostResourceRead ==
    /\ pc = "idle"
    /\ \E name \in LookupNames, resp \in GetResponses(Collections(IPHostStored)) :
            \E out \in ipHostResourceRead(ipHostResourceModel(name), resp) :
                Handled("resource", "IPHost", "Read", name, ipHostResourceModel(name),
                        resp, out)

CallipHostGroupDataSourceRead ==
    /\ pc = "idle"
    /\ \E config \in IPHostGroupPriors, resp \in GetResponses(Collections(IPHostGroupTemplates)) :
            \E out \in ipHostGroupDataSourceRead(config, resp) :
                Handled("datasource", "IPHostGroup", "Read", config.Name.v, config, resp, out)

(***************************************************************************)
(* ipHostResource Create and Update                                        *)
(***************************************************************************)
\* Plans of the IP host resource: each type-specific attribute set or null,
\* whatever the host type.
IPHostPlans ==
    {[ipHostResourceModel(n) EXCEPT
            !.IPFamily = TFStr("IPv4"), !.HostType = TFStr(t),
            !.IPAddress = IF "IPAddress" \in p THEN TFStr(FieldValue("IPAddress")) ELSE TFNull,
            !.Subnet = IF "Subnet" \in p THEN TFStr(FieldValue("Subnet")) ELSE TFNull,
            !.StartIPAddress =
                IF "StartIPAddress" \in p THEN TFStr(FieldValue("StartIPAddress")) ELSE TFNull,
            !.EndIPAddress =
                IF "EndIPAddress" \in p THEN TFStr(FieldValue("EndIPAddress")) ELSE TFNull,
            !.ListOfIPAddresses =
                IF "ListOfIPAddresses" \in p THEN TFStr(FieldValue("ListOfIPAddresses"))
                ELSE TFNull,
            !.HostGroups = g] :
        n \in LookupNames, t \in HostTypes,
        p \in {{}, {"IPAddress"}, {"IPAddress", "Subnet"}, TypeFields},
        g \in {NilList, List(<<"g1">>)}}

\* The API model both handlers build from the plan: every attribute copied,
\* HostGroupList left nil for an empty host_groups.
ipHostFromPlan(plan) ==
    [Name |-> plan.Name.v, Description |-> "", IPFamily |-> plan.IPFamily.v,
     HostType |-> plan.HostType.v, IPAddress |-> plan.IPAddress.v,
     Subnet |-> plan.Subnet.v, StartIPAddress |-> plan.StartIPAddress.v,
     EndIPAddress |-> plan.EndIPAddress.v, TransactionID |-> "",
     ListOfIPAddresses |-> plan.ListOfIPAddresses.v,
     HostGroupList |-> IF Len(plan.HostGroups.items) > 0
                       THEN List(plan.HostGroups.items) ELSE NilList]

ipHostResourceCreate(plan, resp) ==
    LET ipHost == ipHostFromPlan(plan)
    IN AfterCall(CreateIPHostPayload(ipHost), resp, CreateIPHost(ipHost, resp),
                 "Error creating IP Host", plan)

ipHostResourceUpdate(plan, resp) ==
    LET ipHost == ipHostFromPlan(plan)
    IN AfterCall(UpdateIPHostPayload(ipHost), resp, UpdateIPHost(ipHost, resp),
                 "Error updating IP Host", plan)

CallipHostResourceCreate ==
    /\ pc = "idle"
    /\ \E plan \in IPHostPlans, resp \in SetResponses :
            Handled("resource", "IPHost", "Create", plan.Name.v, plan, resp,
                    ipHostResourceCreate(plan, resp))

CallipHostResourceUpdate ==
    /\ pc = "idle"
    /\ \E plan \in IPHostPlans, resp \in SetResponses :
            Handled("resource", "IPHost", "Update", plan.Name.v, plan, resp,
                    ipHostResourceUpdate(plan, resp))

(***************************************************************************)
(* ipHostGroupResource Create and Update                                   *)
(***************************************************************************)
IPHostGroupPlans ==
    {ipHostGroupResourceModel(TFStr(n), TFStr("d0"), TFStr("IPv4"), h) :
        n \in LookupNames, h \in HostLists}

\* The API model both handlers build from the plan: HostList stays nil for
\* an empty host_list, the hosts are taken in plan order.
ipHostGroupFromPlan(plan) ==
    [Name |-> plan.Name.v, Description |-> plan.Description.v,
     IPFamily |-> plan.IPFamily.v,
     HostList |-> IF Len(plan.Hosts.items) > 0 THEN List(plan.Hosts.items) ELSE NilList,
     TransactionID |-> ""]

\* On success the plan itself is stored as the state.
ipHostGroupResourceCreate(plan, resp) ==
    LET ipHostGroup == ipHostGroupFromPlan(plan)
    IN AfterCall(CreateIPHostGroupPayload(ipHostGroup), resp,
                 CreateIPHostGroup(ipHostGroup, resp),
                 "Error creating IP Host Group", plan)

ipHostGroupResourceUpdate(plan, resp) ==
    LET ipHostGroup == ipHostGroupFromPlan(plan)
    IN AfterCall(UpdateIPHostGroupPayload(ipHostGroup), resp,
                 UpdateIPHostGroup(ipHostGroup, resp),
                 "Error updating IP Host Group", plan)

CallipHostGroupResourceCreate ==
    /\ pc = "idle"
    /\ \E plan \in IPHostGroupPlans, resp \in SetResponses :
            Handled("resource", "IPHostGroup", "Create", plan.Name.v, plan, resp,
                    ipHostGroupResourceCreate(plan, resp))

CallipHostGroupResourceUpdate ==
    /\ pc = "idle"
    /\ \E plan \in IPHostGroupPlans, resp \in SetResponses :
            Handled("resource", "IPHostGroup", "Update", plan.Name.v, plan, resp,
                    ipHostGroupResourceUpdate(plan, resp))

(***************************************************************************)
(* A second read of the same, unchanged remote entity                      *)
(***************************************************************************)
\* Sequences over the elements of s, up to MaxList long, with the same set
\* of elements: s reordered, or with elements repeated.
SameSetSeqs(s) == {t \in SeqsUpTo(Range(s), MaxList) : Range(t) = Range(s)}

SameSetLists(l) == IF l.isNil THEN {l} ELSE {List(t) : t \in SameSetSeqs(l.items)}

\* Wire representations of the entity e that differ from e only in the
\* order of, or the duplicates among, the elements of one set-valued field.
SetVariants(kind, e) ==
    CASE kind = "IPHost" ->
            {[e EXCEPT !.HostGroupList = l] : l \in SameSetLists(e.HostGroupList)}
      [] kind = "IPHostGroup" ->
            {[e EXCEPT !.HostList = l] : l \in SameSetLists(e.HostList)}
      [] kind = "MACHost" ->
            {[e EXCEPT !.MACList = t] : t \in SameSetSeqs(e.MACList)}
      [] kind = "FirewallRule" ->
            IF e.NetworkPolicy.isNil THEN {e}
            ELSE {[e EXCEPT !.NetworkPolicy.SourceZones = l] :
                        l \in SameSetLists(e.NetworkPolicy.SourceZones)}
                 \cup {[e EXCEPT !.NetworkPolicy.DestinationZones = l] :
                        l \in SameSetLists(e.NetworkPolicy.DestinationZones)}
                 \cup {[e EXCEPT !.NetworkPolicy.SourceNetworks = l] :
                        l \in SameSetLists(e.NetworkPolicy.SourceNetworks)}
                 \cup {[e EXCEPT !.NetworkPolicy.DestinationNetworks = l] :
                        l \in SameSetLists(e.NetworkPolicy.DestinationNetworks)}

(***************************************************************************)
(* firewallRuleDataSource.Read                                             *)
(***************************************************************************)
\* Empty optional strings and empty or missing lists become null; without
\* a NetworkPolicy the policy attributes keep their zero value, null.
mapFirewallRuleToModel(rule) ==
    LET members(l) == IF ~l.isNil /\ Len(l.items) > 0 THEN List(l.items) ELSE NilList
        policy == rule.NetworkPolicy
    IN [Name |-> TFStr(rule.Name),
        Description |-> IF rule.Description # "" THEN TFStr(rule.Description) ELSE TFNull,
        IPFamily |-> TFStr(rule.IPFamily), Status |-> TFStr(rule.Status),
        Position |-> TFStr(rule.Position), PolicyType |-> TFStr(rule.PolicyType),
        AfterRule |-> IF rule.After # Absent /\ rule.After # ""
                      THEN TFStr(rule.After) ELSE TFNull,
        BeforeRule |-> IF rule.Before # Absent /\ rule.Before # ""
                       THEN TFStr(rule.Before) ELSE TFNull,
        Action |-> IF ~policy.isNil THEN TFStr(policy.Action) ELSE TFNull,
        SourceZones |-> IF ~policy.isNil THEN members(policy.SourceZones) ELSE NilList,
        DestinationZones |->
            IF ~policy.isNil THEN members(policy.DestinationZones) ELSE NilList,
        SourceNetworks |->
            IF ~policy.isNil THEN members(policy.SourceNetworks) ELSE NilList,
        DestinationNetworks |->
            IF ~policy.isNil THEN members(policy.DestinationNetworks) ELSE NilList]

\* A configuration without a name is refused before the adapter is called.
firewallRuleDataSourceRead(ruleName, resp) ==
    IF ruleName = ""
    THEN {Rejected("Missing required parameter", ruleName)}
    ELSE {ReadHandler(res,
                      Submitted(resp, KeyPayload("Get", "FirewallRule", ruleName)),
                      "Error reading firewall rule",
                      Missing("Firewall rule not found", ruleName),
                      IF res.found THEN mapFirewallRuleToModel(res.entity) ELSE NoState) :
            res \in ReadFirewallRule(ruleName, resp)}

CallfirewallRuleDataSourceRead ==
    /\ pc = "idle"
    /\ \E ruleName \in LookupNames \cup {""} :
        \E resp \in IF ruleName = "" THEN {NoResponse}
                    ELSE GetResponses(Collections(FirewallRuleTemplates)) :
            \E out \in firewallRuleDataSourceRead(ruleName, resp) :
                Handled("datasource", "FirewallRule", "Read", ruleName, Null, resp, out)

AdapterRead(results, reqs) == {Out(reqs, res, NoState, <<>>) : res \in results}

\* The read the host made, repeated on another response.
ReadPath(layer, kind, input, name, resp) ==
    CASE layer = "adapter" /\ kind = "IPHost" ->
            AdapterRead(ReadIPHost(name, resp), Submitted(resp, KeyPayload("Get", kind, name)))
      [] layer = "adapter" /\ kind = "IPHostGroup" ->
            AdapterRead(ReadIPHostGroup(name, resp), Submitted(resp, KeyPayload("Get", kind, name)))
      [] layer = "adapter" /\ kind = "MACHost" ->
            AdapterRead(ReadMACHost(name, resp), Submitted(resp, KeyPayload("Get", kind, name)))
      [] layer = "adapter" /\ kind = "FirewallRule" ->
            AdapterRead(ReadFirewallRule(name, resp), Submitted(resp, KeyPayload("Get", kind, name)))
      [] layer = "resource" /\ kind = "MACHost" -> macHostResourceRead(input, resp)
      [] layer = "datasource" /\ kind = "MACHost" -> macHostDataSourceRead(input, resp)
      [] layer = "resource" /\ kind = "IPHostGroup" -> ipHostGroupResourceRead(input, resp)
      [] layer = "resource" /\ kind = "FirewallRule" -> firewallRuleResourceRead(input, resp)
      [] layer = "datasource" /\ kind = "IPHost" -> ipHostDataSourceRead(input, resp)
      [] layer = "resource" /\ kind = "IPHost" -> ipHostResourceRead(input, resp)
      [] layer = "datasource" /\ kind = "IPHostGroup" -> ipHostGroupDataSourceRead(input, resp)
      [] layer = "datasource" /\ kind = "FirewallRule" -> firewallRuleDataSourceRead(name, resp)

Reread ==
    /\ pc = "done"
    /\ invoked.op = "Read"
    /\ result.err = ""
    /\ result.found
    /\ LET i == FirstMatch(response.Entities, invoked.name) IN
       \E e2 \in SetVariants(invoked.kind, response.Entities[i]) :
            \E out \in ReadPath(invoked.layer, invoked.kind, invoked.entity, invoked.name,
                                [response EXCEPT !.Entities[i] = e2]) :
                /\ reread' = [sent |-> e2, res |-> out.res, st |-> out.st, dg |-> out.dg]
                /\ pc' = "reread"
                /\ UNCHANGED <<client, invoked, requests, response, followUp, remote, result,
                               state, diags, tempFiles>>

(***************************************************************************)
(* A read directly after a successful write, against a remote that stores  *)
(* what the Set block wrote and returns it on Get                          *)
(***************************************************************************)
\* Text of a child element, "" when the element is missing.
Text(wire, tag) ==
    IF tag \in DOMAIN wire.elements THEN wire.elements[tag] ELSE ""

\* encoding/xml of an IPHost: one element per string field (empty strings
\* included), transactionid as an attribute, no HostGroupList element for a
\* nil pointer and one HostGroup child per entry otherwise.
MarshalIPHost(ipHost) ==
    [attrs |-> [transactionid |-> ipHost.TransactionID],
     elements |->
        [Name |-> ipHost.Name, Description |-> ipHost.Description,
         IPFamily |-> ipHost.IPFamily, HostType |-> ipHost.HostType,
         IPAddress |-> ipHost.IPAddress, Subnet |-> ipHost.Subnet,
         StartIPAddress |-> ipHost.StartIPAddress, EndIPAddress |-> ipHost.EndIPAddress,
         ListOfIPAddresses |-> ipHost.ListOfIPAddresses,
         HostGroupList |-> [present |-> ~ipHost.HostGroupList.isNil,
                            children |-> ipHost.HostGroupList.items]]]

\* Sensitivity variant for C11: the address is looked up under another tag.
UnmarshalIPHostOtherTag(wire) ==
    [Name |-> Text(wire, "Name"), Description |-> Text(wire, "Description"),
     IPFamily |-> Text(wire, "IPFamily"), HostType |-> Text(wire, "HostType"),
     IPAddress |-> Text(wire, "IpAddress"), Subnet |-> Text(wire, "Subnet"),
     StartIPAddress |-> Text(wire, "StartIPAddress"),
     EndIPAddress |-> Text(wire, "EndIPAddress"),
     TransactionID |-> wire.attrs.transactionid,
     ListOfIPAddresses |-> Text(wire, "ListOfIPAddresses"),
     HostGroupList |-> IF ~wire.elements.HostGroupList.present THEN NilList
                       ELSE List(wire.elements.HostGroupList.children)]


\* xml.Unmarshal into the IPHosts slice of the read response, by struct tag.
UnmarshalIPHost(wire) ==
    [Name |-> Text(wire, "Name"), Description |-> Text(wire, "Description"),
     IPFamily |-> Text(wire, "IPFamily"), HostType |-> Text(wire, "HostType"),
     IPAddress |-> Text(wire, "IPAddress"), Subnet |-> Text(wire, "Subnet"),
     StartIPAddress |-> Text(wire, "StartIPAddress"),
     EndIPAddress |-> Text(wire, "EndIPAddress"),
     TransactionID |-> wire.attrs.transactionid,
     ListOfIPAddresses |-> Text(wire, "ListOfIPAddresses"),
     HostGroupList |-> IF ~wire.elements.HostGroupList.present THEN NilList
                       ELSE List(wire.elements.HostGroupList.children)]

\* The Get response of the storing remote: the stored entity, alone or after
\* an entity of another name.
StoredResponses(stored) ==
    {Resp("xml", "Authentication Successful", "", "", before \o <<stored>>) :
        before \in {<<>>, <<[stored EXCEPT !.Name = "db1"]>>}}

ReadBack(stored, res, st, dg) ==
    /\ reread' = [sent |-> stored, res |-> res, st |-> st, dg |-> dg]
    /\ pc' = "readback"
    /\ UNCHANGED <<client, invoked, requests, response, followUp, remote, result,
                               state, diags, tempFiles>>

\* ReadIPHost of the name just created or updated.
ReadBackIPHost ==
    /\ pc = "done"
    /\ invoked.layer = "adapter" /\ invoked.kind = "IPHost"
    /\ invoked.op \in {"Create", "Update"}
    /\ result.err = ""
    /\ LET stored == UnmarshalIPHost(MarshalIPHost(requests[1].fields)) IN
       \E resp \in StoredResponses(stored) :
            \E res \in ReadIPHost(invoked.name, resp) :
                ReadBack(stored, res, NoState, <<>>)

\* encoding/xml of an IPHostGroup: no HostList element for a nil pointer,
\* one Host child per entry otherwise.
MarshalIPHostGroup(ipHostGroup) ==
    [attrs |-> [transactionid |-> ipHostGroup.TransactionID],
     elements |->
        [Name |-> ipHostGroup.Name, Description |-> ipHostGroup.Description,
         IPFamily |-> ipHostGroup.IPFamily,
         HostList |-> [present |-> ~ipHostGroup.HostList.isNil,
                       children |-> ipHostGroup.HostList.items]]]

UnmarshalIPHostGroup(wire) ==
    [Name |-> Text(wire, "Name"), Description |-> Text(wire, "Description"),
     IPFamily |-> Text(wire, "IPFamily"),
     HostList |-> IF ~wire.elements.HostList.present THEN NilList
                  ELSE List(wire.elements.HostList.children),
     TransactionID |-> wire.attrs.transactionid]

\* ipHostGroupResource.Read on the state the Create or Update just stored.
ReadBackIPHostGroup ==
    /\ pc = "done"
    /\ invoked.layer = "resource" /\ invoked.kind = "IPHostGroup"
    /\ invoked.op \in {"Create", "Update"}
    /\ result.err = ""
    /\ LET stored == UnmarshalIPHostGroup(MarshalIPHostGroup(requests[1].fields)) IN
       \E resp \in StoredResponses(stored) :
            \E out \in ipHostGroupResourceRead(state, resp) :
                ReadBack(stored, out.res, out.st, out.dg)

(***************************************************************************)
(* firewallRuleResource Create and Update (resource_firewallrule.go)       *)
(***************************************************************************)
\* After and Before are filled from after_rule and before_rule alone; a
\* list attribute becomes a list element only when it has members.
modelToAPIFirewallRule(model) ==
    LET members(l) == IF ~l.isNil /\ Len(l.items) > 0 THEN List(l.items) ELSE NilList
    IN [Name |-> model.Name.v, Description |-> model.Description.v,
        IPFamily |-> model.IPFamily.v, Status |-> model.Status.v,
        Position |-> model.Position.v, PolicyType |-> model.PolicyType.v,
        After |-> IF ~model.AfterRule.isNull /\ model.AfterRule.v # ""
                  THEN model.AfterRule.v ELSE Absent,
        Before |-> IF ~model.BeforeRule.isNull /\ model.BeforeRule.v # ""
                   THEN model.BeforeRule.v ELSE Absent,
        NetworkPolicy |->
            [isNil |-> FALSE, Action |-> model.Action.v,
             SourceZones |-> members(model.SourceZones),
             DestinationZones |-> members(model.DestinationZones),
             SourceNetworks |-> members(model.SourceNetworks),
             DestinationNetworks |-> members(model.DestinationNetworks)],
        TransactionID |-> ""]

RuleReferences == {TFNull, TFStr("")} \cup {TFStr(n) : n \in RuleNames}

FirewallRulePlans ==
    {[Name |-> TFStr(n), Description |-> TFStr("d0"), IPFamily |-> TFStr("IPv4"),
      Status |-> TFStr("Enable"), Position |-> TFStr(p), PolicyType |-> TFStr("Network"),
      AfterRule |-> a, BeforeRule |-> b, Action |-> TFStr("Accept"),
      SourceZones |-> z, DestinationZones |-> SomeZones,
      SourceNetworks |-> NilList, DestinationNetworks |-> SomeNetworks] :
        n \in LookupNames, p \in Positions, a \in RuleReferences, b \in RuleReferences,
        z \in {NilList, List(<<>>), SomeZones}}

\* What the read after a write can be answered with: an I/O failure, or a
\* collection that holds the written rule or does not.
RuleReadResponses(rule) == GetResponses({<<>>, <<rule>>})

\* A write followed by a read of the written rule; the state is set from
\* the rule read, and only when both calls succeeded and the rule was found.
WriteThenRead(plan, payload, resp, res, resp2, writeSummary, readSummary, whenMissing) ==
    IF res.err # ""
    THEN {Out(Submitted(resp, payload), res, NoState,
              <<Diag("error", writeSummary, res.err)>>)}
    ELSE {ReadHandler(read,
                      Submitted(resp, payload)
                          \o Submitted(resp2, KeyPayload("Get", "FirewallRule", plan.Name.v)),
                      readSummary,
                      whenMissing,
                      IF read.found THEN apiToModelFirewallRule(read.entity) ELSE NoState) :
            read \in ReadFirewallRule(plan.Name.v, resp2)}

firewallRuleResourceCreate(plan, resp, resp2) ==
    LET rule == modelToAPIFirewallRule(plan)
    IN WriteThenRead(plan, CreateFirewallRulePayload(rule), resp,
                     CreateFirewallRule(rule, resp), resp2,
                     "Error creating firewall rule", "Error reading created firewall rule",
                     Missing("Error after creation",
                             "Firewall rule was not found after creation"))

firewallRuleResourceUpdate(plan, resp, resp2) ==
    LET rule == modelToAPIFirewallRule(plan)
    IN WriteThenRead(plan, UpdateFirewallRulePayload(rule), resp,
                     UpdateFirewallRule(rule, resp), resp2,
                     "Error updating firewall rule", "Error reading updated firewall rule",
                     Missing("Error after update",
                             "Firewall rule was not found after update"))

\* The second call is made only when the first returned no error.
SecondResponses(res, rule) == IF res.err # "" THEN {NoResponse} ELSE RuleReadResponses(rule)

CallfirewallRuleResourceCreate ==
    /\ pc = "idle"
    /\ \E plan \in FirewallRulePlans, resp \in SetResponses :
        \E resp2 \in SecondResponses(CreateFirewallRule(modelToAPIFirewallRule(plan), resp),
                                     modelToAPIFirewallRule(plan)) :
            \E out \in firewallRuleResourceCreate(plan, resp, resp2) :
                FinishBoth("resource", "FirewallRule", "Create", plan.Name.v, plan,
                           out.reqs, resp, resp2, out.res, out.st, out.dg)

CallfirewallRuleResourceUpdate ==
    /\ pc = "idle"
    /\ \E plan \in FirewallRulePlans, resp \in SetResponses :
        \E resp2 \in SecondResponses(UpdateFirewallRule(modelToAPIFirewallRule(plan), resp),
                                     modelToAPIFirewallRule(plan)) :
            \E out \in firewallRuleResourceUpdate(plan, resp, resp2) :
                FinishBoth("resource", "FirewallRule", "Update", plan.Name.v, plan,
                           out.reqs, resp, resp2, out.res, out.st, out.dg)

(***************************************************************************)
(* Resource Delete handlers                                                *)
(***************************************************************************)
\* Each handler calls the adapter's Delete with the name held in the prior
\* state and writes nothing itself; when it returns without an error
\* diagnostic the framework removes the resource from the state.
CallipHostResourceDelete ==
    /\ pc = "idle"
    /\ \E name \in LookupNames, resp \in SetResponses :
            Handled("resource", "IPHost", "Delete", name, ipHostResourceModel(name), resp,
                    AfterCall(KeyPayload("Remove", "IPHost", name), resp,
                              DeleteIPHost(name, resp), "Error deleting IP Host", Removed))

CallipHostGroupResourceDelete ==
    /\ pc = "idle"
    /\ \E prior \in IPHostGroupPriors, resp \in SetResponses :
            Handled("resource", "IPHostGroup", "Delete", prior.Name.v, prior, resp,
                    AfterCall(KeyPayload("Remove", "IPHostGroup", prior.Name.v), resp,
                              DeleteIPHostGroup(prior.Name.v, resp),
                              "Error deleting IP Host Group", Removed))

CallmacHostResourceDelete ==
    /\ pc = "idle"
    /\ \E prior \in MACHostPriors, resp \in SetResponses :
            Handled("resource", "MACHost", "Delete", prior.Name.v, prior, resp,
                    AfterCall(KeyPayload("Remove", "MACHost", prior.Name.v), resp,
                              DeleteMACHost(prior.Name.v, resp),
                              "Error deleting MAC Host", Removed))

CallfirewallRuleResourceDelete ==
    /\ pc = "idle"
    /\ \E prior \in FirewallRulePriors, resp \in SetResponses :
            Handled("resource", "FirewallRule", "Delete", prior.Name.v, prior, resp,
                    AfterCall(KeyPayload("Remove", "FirewallRule", prior.Name.v), resp,
                              DeleteFirewallRule(prior.Name.v, resp),
                              "Error deleting firewall rule", Removed))


(***************************************************************************)
(* parseMACList applied to a text                                          *)
(***************************************************************************)
CallparseMACList ==
    /\ pc = "idle"
    /\ \E macList \in MACListTexts :
            Finish("host", "MACHost", "parseMACList", "", TFText(macList), <<>>,
                   NoResponse, NotCalled, parseMACList(macList), <<>>)

CallparseMACListLegacy ==
    /\ pc = "idle"
    /\ \E macList \in MACListTexts :
            Finish("host", "MACHost", "parseMACListLegacy", "", TFText(macList), <<>>,
                   NoResponse, NotCalled, parseMACListLegacy(macList), <<>>)

Next ==
    \/ Configure
    \/ CallCreateIPHost
    \/ CallReadIPHost
    \/ CallUpdateIPHost
    \/ CallDeleteIPHost
    \/ CallCreateIPHostGroup
    \/ CallReadIPHostGroup
    \/ CallUpdateIPHostGroup
    \/ CallDeleteIPHostGroup
    \/ CallCreateMACHost
    \/ CallReadMACHost
    \/ CallUpdateMACHost
    \/ CallDeleteMACHost
    \/ CallCreateFirewallRule
    \/ CallReadFirewallRule
    \/ CallUpdateFirewallRule
    \/ CallDeleteFirewallRule
    \/ CallmacHostResourceCreate
    \/ CallmacHostResourceUpdate
    \/ CallmacHostResourceCreateLegacy
    \/ CallmacHostResourceUpdateLegacy
    \/ CallmacHostResourceRead
    \/ CallmacHostDataSourceRead
    \/ CallipHostGroupResourceRead
    \/ CallfirewallRuleResourceRead
    \/ CallipHostDataSourceRead
    \/ CallipHostResourceRead
    \/ CallipHostGroupResourceCreate
    \/ CallipHostGroupResourceUpdate
    \/ CallipHostGroupDataSourceRead
    \/ CallipHostResourceCreate
    \/ CallipHostResourceUpdate
    \/ Reread
    \/ CallfirewallRuleResourceCreate
    \/ CallfirewallRuleResourceUpdate
    \/ CallipHostResourceDelete
    \/ CallipHostGroupResourceDelete
    \/ CallmacHostResourceDelete
    \/ CallfirewallRuleResourceDelete
    \/ CallfirewallRuleDataSourceRead
    \/ CallparseMACList
    \/ CallparseMACListLegacy
    \/ ReadBackIPHost
    \/ ReadBackIPHostGroup
    \/ Return

Spec == Init /\ [][Next]_vars

(***************************************************************************)
(* Properties                                                              *)
(***************************************************************************)
AdapterDone(op) == pc = "done" /\ invoked.layer = "adapter" /\ invoked.op = op

AnyAdapterDone == pc = "done" /\ invoked.layer = "adapter"

\* C1: every adapter operation (Create, Read, Update, Delete of the four
\* kinds) returns an authentication error whenever the parsed response's
\* Login status is not exactly "Authentication Successful", whatever the
\* Error element, the Status code or the entities hold.
C1_LoginGate ==
    (AnyAdapterDone /\ response.io = "xml" /\ response.Login # "Authentication Successful")
        => result.err = "authentication failed"

\* An Update whose response carries a login that differs from the literal
\* only in case, together with an Error element and a Status of 200.
C1_Witness ==
    /\ AdapterDone("Update")
    /\ invoked.kind = "FirewallRule"
    /\ response.io = "xml"
    /\ response.Login = "authentication successful"
    /\ response.ErrorCode = "500"
    /\ response.StatusCode = "200"
    /\ result.err = "authentication failed"

\* C2 (as stated): for every kind, Create returns success only if the login
\* succeeded, no Error element is present and the Status code is "200".
C2_CreateSuccessRule ==
    (AdapterDone("Create") /\ result.err = "")
        => /\ response.io = "xml"
           /\ response.Login = "Authentication Successful"
           /\ response.ErrorCode = ""
           /\ response.StatusCode = "200"

\* C3 (as stated): for every kind, Update returns an error whenever the
\* Status code of the response is not "200".
C3_UpdateSuccessRule ==
    (AdapterDone("Update") /\ response.io = "xml" /\ response.StatusCode # "200")
        => result.err # ""

\* C4: the entity Read(name) returns is the first element of the response
\* whose Name equals name exactly; Read never returns an entity with
\* another Name.  Description carries the element's position.
C4_ReadExactFirstMatch ==
    (AdapterDone("Read") /\ result.found)
        => /\ result.err = ""
           /\ result.entity.Name = invoked.name
           /\ \E i \in 1..Len(response.Entities) :
                /\ response.Entities[i].Name = invoked.name
                /\ \A j \in 1..(i - 1) : response.Entities[j].Name # invoked.name
                /\ result.entity.Description = response.Entities[i].Description

\* A response whose first element differs from the requested name only in
\* case and whose second element is the requested one.
C4_Witness ==
    /\ AdapterDone("Read")
    /\ result.found
    /\ Len(response.Entities) = 2
    /\ invoked.name = "web1"
    /\ response.Entities[1].Name = "WEB1"
    /\ response.Entities[2].Name = "web1"
    /\ result.entity.Description = Descr(2)

\* C5: Read returns (nil, nil) exactly when the response parsed, the login
\* succeeded, no Error element is present and no element is named name.
C5_NotFoundIsNotAnError ==
    AdapterDone("Read")
        => ((result.err = "" /\ ~result.found)
              <=> /\ response.io = "xml"
                  /\ response.Login = "Authentication Successful"
                  /\ response.ErrorCode = ""
                  /\ \A i \in 1..Len(response.Entities) :
                        response.Entities[i].Name # invoked.name)

\* A non-empty response none of whose elements has the requested name.
C5_Witness ==
    /\ AdapterDone("Read")
    /\ invoked.kind = "MACHost"
    /\ response.io = "xml"
    /\ response.Login = "Authentication Successful"
    /\ response.ErrorCode = ""
    /\ Len(response.Entities) = 2
    /\ \A i \in 1..2 : response.Entities[i].Name # invoked.name
    /\ result = Ok

InactiveFields(hostType) ==
    CASE hostType = "IP" -> TypeFields \ {"IPAddress"}
      [] hostType = "Network" -> TypeFields \ {"IPAddress", "Subnet"}
      [] hostType = "IPRange" -> TypeFields \ {"StartIPAddress", "EndIPAddress"}
      [] hostType = "IPList" -> TypeFields \ {"ListOfIPAddresses"}
      [] OTHER -> TypeFields

RecognisedHostTypes == {"IP", "Network", "IPRange", "IPList", "System Host"}

IPHostReadDone == AdapterDone("Read") /\ invoked.kind = "IPHost" /\ result.found

C7_ReadStableUnderReordering ==
    pc = "reread" => (reread.res = result /\ reread.st = state)

SentMACHost == response.Entities[FirstMatch(response.Entities, invoked.name)]

\* C8 (as stated): for a remote MACHost of Type MACLIST every read path
\* returns the distinct addresses of the response, each once, in order of
\* first occurrence.
C8_MACListFirstSeenDedup ==
    (/\ pc = "done" /\ invoked.kind = "MACHost" /\ invoked.op = "Read"
     /\ result.err = "" /\ result.found /\ SentMACHost.Type = "MACLIST"
     /\ Len(SentMACHost.MACList) > 0)
        => CASE invoked.layer = "adapter" ->
                    result.entity.ListOfMACAddresses.items = Unique(SentMACHost.MACList)
             [] invoked.layer = "resource" ->
                    state.ListOfMACAddresses.v = Join(Unique(SentMACHost.MACList))
             [] invoked.layer = "datasource" ->
                    state.ListOfMACAddresses.items = Unique(SentMACHost.MACList)

\* C9 (as stated): Create and Update of a MACHost of Type "MACAddress" with
\* a MAC address that does not match the pattern fail with a validation
\* error naming the value, and submit no request.
C9_MalformedMACRejected ==
    (/\ pc = "done" /\ invoked.kind = "MACHost"
     /\ invoked.layer \in {"resource", "resourceLegacy"}
     /\ invoked.op \in {"Create", "Update"}
     /\ invoked.entity.Type.v = "MACAddress"
     /\ ~invoked.entity.MACAddress.isNull
     /\ ~isValidMACAddress(invoked.entity.MACAddress.v))
        => /\ requests = <<>>
           /\ state = NoState
           /\ \E i \in 1..Len(diags) :
                diags[i].severity = "error" /\ diags[i].value = invoked.entity.MACAddress.v

\* C10: the payload Update submits carries an empty or absent transaction
\* id, whatever id the entity handed to Update carries.
C10_UpdateClearsTransactionID ==
    AdapterDone("Update")
        => \A i \in 1..Len(requests) : requests[i].fields.TransactionID \in {"", Absent}

\* An Update of an entity with a non-empty id that reached the transport.
C10_Witness ==
    /\ AdapterDone("Update")
    /\ invoked.kind = "IPHostGroup"
    /\ invoked.entity.TransactionID = "tx-42"
    /\ Len(requests) = 1
    /\ requests[1].fields.TransactionID = ""
\* C11: against a remote that stores what a successful Set writes and returns
\* it on Get, a successful CreateIPHost of an entity with HostType "IP" and an
\* IPAddress followed by ReadIPHost of the same name returns an entity with the
\* same Name, HostType and IPAddress, and with Subnet, StartIPAddress,
\* EndIPAddress and ListOfIPAddresses all empty.
C11_CreateReadRoundTrip ==
    (/\ pc = "readback"
     /\ invoked.layer = "adapter" /\ invoked.kind = "IPHost" /\ invoked.op = "Create"
     /\ invoked.entity.HostType = "IP"
     /\ invoked.entity.IPAddress # "")
    => /\ reread.res.err = ""
       /\ reread.res.found
       /\ reread.res.entity.Name = invoked.entity.Name
       /\ reread.res.entity.HostType = invoked.entity.HostType
       /\ reread.res.entity.IPAddress = invoked.entity.IPAddress
       /\ reread.res.entity.Subnet = ""
       /\ reread.res.entity.StartIPAddress = ""
       /\ reread.res.entity.EndIPAddress = ""
       /\ reread.res.entity.ListOfIPAddresses = ""

\* A created "IP" host that still carried a Subnet was read back.
C11_Witness ==
    /\ pc = "readback"
    /\ invoked.layer = "adapter" /\ invoked.kind = "IPHost" /\ invoked.op = "Create"
    /\ invoked.entity.HostType = "IP"
    /\ invoked.entity.IPAddress # ""
    /\ invoked.entity.Subnet # ""
    /\ Len(response.Entities) = 0
    /\ reread.sent.Subnet # ""
    /\ reread.res.found

\* C12: for every resource kind, Delete(name) succeeds exactly when the
\* response parses, the login succeeded and the response carries no Error
\* code; the presence, absence or value of a Status element never changes
\* the outcome.
C12_DeleteIgnoresStatus ==
    AdapterDone("Delete") =>
        /\ (result.err = "") <=>
                /\ response.io = "xml"
                /\ response.Login = "Authentication Successful"
                /\ response.ErrorCode = ""
        /\ \A s \in StatusCodes :
                LET other == [response EXCEPT !.StatusCode = s] IN
                result = CASE invoked.kind = "IPHost" -> DeleteIPHost(invoked.name, other)
                           [] invoked.kind = "IPHostGroup" -> DeleteIPHostGroup(invoked.name, other)
                           [] invoked.kind = "MACHost" -> DeleteMACHost(invoked.name, other)
                           [] invoked.kind = "FirewallRule" -> DeleteFirewallRule(invoked.name, other)

\* A MACHost Delete succeeded on a response whose Status code is "500".
C12_Witness ==
    /\ AdapterDone("Delete")
    /\ invoked.kind = "MACHost"
    /\ response.io = "xml"
    /\ response.StatusCode = "500"
    /\ result.err = ""


\* C13: TLS certificate verification is disabled for a request only when the
\* provider's insecure flag is true: with insecure unset or false, every
\* request of every operation is submitted with verification enabled (no
\* -k on the curl command line).
C13_VerifiesUnlessInsecure ==
    pc \in {"done", "reread", "readback"} =>
        \A i \in 1..Len(requests) :
            "-k" \in requests[i].flags => client.BaseClient.InsecureSkipVerify


\* C14: on every exit path of every adapter operation, each error path
\* included (payload write failure, response temp file creation failure,
\* transport failure, decode failure, authentication or application failure),
\* every temporary file the operation created has been removed when the
\* operation returns.
C14_TempFilesRemoved ==
    AnyAdapterDone => tempFiles.left = {}


\* C15: for every adapter operation (Create, Read, Update, Delete of every
\* resource kind), an empty response body is reported as the empty-response
\* failure and never as an envelope decode failure.
C15_EmptyBodyIsEmptyResponse ==
    (AnyAdapterDone /\ response.io = "empty")
        => result.err = "received empty response from Sophos API"


ResourceReadDone ==
    pc = "done" /\ invoked.layer = "resource" /\ invoked.op = "Read"

ErrorDiags == {i \in 1..Len(diags) : diags[i].severity = "error"}

\* C16: in every resource Read handler (IPHostGroup, MACHost, FirewallRule,
\* IPHost), when the adapter reports not-found the handler removes the
\* resource from the host state and adds no error diagnostic; when the
\* adapter reports an error the handler adds an error diagnostic and leaves
\* the host state as it was.
C16_ReadPrunesMissing ==
    ResourceReadDone =>
        /\ (result.err = "" /\ ~result.found) => (state = Removed /\ ErrorDiags = {})
        /\ result.err # "" => (state = NoState /\ ErrorDiags # {})

\* The IPHost resource Read found no entity of the name and pruned.
C16_Witness ==
    /\ ResourceReadDone
    /\ invoked.kind = "IPHost"
    /\ response.io = "xml"
    /\ Len(response.Entities) > 0
    /\ result.err = ""
    /\ ~result.found
    /\ state = Removed


\* C17: in the request payload of every IPHost Create and Update, each
\* type-specific field that does not belong to the entity's HostType is
\* absent or empty, whatever value the caller's entity holds in that field.
C17_PayloadVariantFields ==
    (/\ pc = "done"
     /\ invoked.kind = "IPHost"
     /\ invoked.op \in {"Create", "Update"})
    => \A i \in 1..Len(requests) :
            \A f \in InactiveFields(requests[i].fields.HostType) :
                Text(MarshalIPHost(requests[i].fields), f) = ""


\* A MACHost Read of a resource or data source that found the entity.
MACHostReadFound ==
    /\ pc = "done"
    /\ invoked.kind = "MACHost" /\ invoked.op = "Read"
    /\ invoked.layer \in {"resource", "datasource"}
    /\ result.err = "" /\ result.found

\* The list attribute is a string in the resource and a list in the data source.
ListIsNull(st) ==
    IF "isNull" \in DOMAIN st.ListOfMACAddresses
    THEN st.ListOfMACAddresses.isNull ELSE st.ListOfMACAddresses.isNil

RemoteMACHost == response.Entities[FirstMatch(response.Entities, invoked.name)]

RemoteIPHostGroup == response.Entities[FirstMatch(response.Entities, invoked.name)]

\* C19: every IPHostGroup read path (resource Read and data source Read)
\* yields the group's host names deduplicated and in ascending alphabetical
\* order, so the result depends only on the set of hosts the remote returned.
C19_HostsSortedDeduplicated ==
    (/\ pc = "done"
     /\ invoked.kind = "IPHostGroup" /\ invoked.op = "Read"
     /\ invoked.layer \in {"resource", "datasource"}
     /\ result.err = "" /\ result.found)
    => LET hosts == state.Hosts.items IN
       /\ Range(hosts) = Range(RemoteIPHostGroup.HostList.items)
       /\ \A i \in 1..Len(hosts), j \in 1..Len(hosts) :
                i < j => HostRank(hosts[i]) < HostRank(hosts[j])


\* C20: idempotent convergence for IPHostGroup: against a remote that stores
\* what a successful Set writes, the host state recorded by a successful
\* resource Create (or Update) with any host_list equals the host state the
\* next resource Read records.
C20_ReadAfterCreateChangesNothing ==
    (/\ pc = "readback"
     /\ invoked.layer = "resource" /\ invoked.kind = "IPHostGroup")
    => reread.st = state

\* C21: every adapter operation submits at most one request to the transport
\* per invocation; after any failure (transport, empty body, decode,
\* authentication, application) it returns the error without submitting
\* another request, and a failure before the transport submits none.
C21_AtMostOneRequest ==
    AnyAdapterDone =>
        /\ Len(requests) <= 1
        /\ result.err # "" =>
              Len(requests) =
                  IF response.io \in {"payloadTmpFail", "payloadWriteFail", "responseTmpFail"}
                  THEN 0 ELSE 1

\* An adapter Create whose curl run failed returned after its one request.
C21_Witness ==
    /\ AdapterDone("Create")
    /\ response.io = "curlFail"
    /\ result.err = "error executing curl"
    /\ Len(requests) = 1

FirewallRuleWriteDone ==
    /\ pc = "done"
    /\ invoked.layer = "resource"
    /\ invoked.kind = "FirewallRule"
    /\ invoked.op \in {"Create", "Update"}

\* C22: a firewall-rule resource Create or Update ends either with the
\* remote rule written and the host state recorded, or with an error
\* diagnostic and neither the remote rule nor the host state changed; it
\* never ends with an error after the remote accepted the write.
C22_CreateUpdateAtomic ==
    FirewallRuleWriteDone =>
        \/ ErrorDiags = {} /\ state # NoState /\ remote # <<>>
        \/ ErrorDiags # {} /\ state = NoState /\ remote = <<>>

CreatePayloadOf(kind, entity) ==
    CASE kind = "IPHost" -> CreateIPHostPayload(entity)
      [] kind = "IPHostGroup" -> CreateIPHostGroupPayload(entity)
      [] kind = "MACHost" -> CreateMACHostPayload(entity)
      [] kind = "FirewallRule" -> CreateFirewallRulePayload(entity)

\* C23: for every resource kind and every entity, the request payload of
\* Update equals the request payload of Create for the same entity except
\* for the Set operation attribute ("update" instead of "add") and the
\* cleared transaction id; the name is carried in the element Name in both.
C23_UpdatePayloadIsCreatePayload ==
    AdapterDone("Update") /\ Len(requests) = 1 =>
        /\ requests[1] =
              [CreatePayloadOf(invoked.kind, [invoked.entity EXCEPT !.TransactionID = ""])
                  EXCEPT !.operation = "update"]
        /\ requests[1].nameElement = "Name"

\* C24: the entity built for a firewall-rule Create or Update never carries
\* both an After and a Before reference, and carries After only when
\* Position is "After" and Before only when Position is "Before".
C24_OnePositionReference ==
    FirewallRuleWriteDone =>
        LET rule == modelToAPIFirewallRule(invoked.entity)
        IN /\ ~(rule.After # Absent /\ rule.Before # Absent)
           /\ rule.After # Absent => rule.Position = "After"
           /\ rule.Before # Absent => rule.Position = "Before"

IPHostReadFound ==
    /\ AdapterDone("Read")
    /\ invoked.kind = "IPHost"
    /\ result.found

\* The element of the response the IPHost read returned.
RemoteIPHost ==
    CHOOSE e \in Range(response.Entities) :
        e.Name = result.entity.Name /\ e.Description = result.entity.Description

\* C25: after every IPHost Read that finds the entity, its HostGroupList is
\* non-nil and holds each host-group name of the response exactly once: the
\* set of names equals the set the remote returned, and a response with no
\* HostGroupList yields an empty, non-nil list.
C25_HostGroupsDeduplicated ==
    IPHostReadFound =>
        LET got == result.entity.HostGroupList
            sent == RemoteIPHost.HostGroupList
        IN /\ ~got.isNil
           /\ \A i, j \in 1..Len(got.items) : got.items[i] = got.items[j] => i = j
           /\ Range(got.items) = Range(sent.items)
           /\ sent.isNil => got = List(<<>>)

C25_Witness ==
    /\ IPHostReadFound
    /\ Len(RemoteIPHost.HostGroupList.items) = 3
    /\ Len(result.entity.HostGroupList.items) = 2

\* C26: Read of any resource kind is a pure query: the only request it
\* submits is a Get carrying the lookup name, never a Set or Remove, and it
\* leaves the remote entity store and the client's endpoint and credentials
\* unchanged, whether it ends in found, not-found or error.
C26_ReadIsPureQuery ==
    [][pc' = "done" /\ invoked'.op = "Read" =>
          /\ Len(requests') <= 1
          /\ \A i \in 1..Len(requests') :
                /\ requests'[i].verb = "Get"
                /\ requests'[i].element = invoked'.kind
                /\ requests'[i].fields = [Name |-> invoked'.name]
          /\ remote' = <<>>
          /\ client' = client]_vars

C26_Witness ==
    /\ AdapterDone("Read")
    /\ result.err = ""
    /\ ~result.found
    /\ Len(requests) = 1
    /\ requests[1].verb = "Get"
    /\ remote = <<>>

ResourceWriteDone ==
    /\ pc = "done"
    /\ invoked.layer = "resource"
    /\ invoked.op \in {"Create", "Update", "Delete"}

\* C27: in every resource handler, when the adapter's Create, Update or
\* Delete returns an error the handler adds an error diagnostic and does
\* not write the host state.
C27_FailedWriteKeepsState ==
    ResourceWriteDone /\ result.err # Absent /\ result.err # "" =>
        /\ ErrorDiags # {}
        /\ state = NoState

C27_Witness ==
    /\ ResourceWriteDone
    /\ invoked.op = "Delete"
    /\ result.err = "Sophos API error"
    /\ ErrorDiags # {}
    /\ state = NoState

MACHostWriteDone ==
    /\ pc = "done"
    /\ invoked.layer = "resource"
    /\ invoked.kind = "MACHost"
    /\ invoked.op \in {"Create", "Update"}
    /\ Len(requests) = 1

\* C28: the MACHost resource classifies the configured type the same way
\* in Create and in Update: the wire Type sent by Create equals the wire
\* Type sent by Update, the single MACAddress is sent exactly when that
\* wire Type is "MACAddress", and the Type recorded in the host state
\* equals the wire Type sent.
C28_SameTypeInCreateAndUpdate ==
    MACHostWriteDone =>
        LET sent == requests[1].fields
            byCreate == macHostResourceCreate(invoked.entity, response).reqs[1].fields
            byUpdate == macHostResourceUpdate(invoked.entity, response).reqs[1].fields
        IN /\ byCreate.Type = byUpdate.Type
           /\ sent.MACAddress # Absent <=> sent.Type = "MACAddress"
           /\ state # NoState => state.Type.v = sent.Type

ReadNotFound(layer) ==
    /\ pc = "done"
    /\ invoked.layer = layer
    /\ invoked.op = "Read"
    /\ result.err = ""
    /\ ~result.found

\* C29: every data source Read (IPHost, IPHostGroup, MACHost, FirewallRule)
\* turns the adapter's not-found result into an error diagnostic and sets
\* no state, unlike the resource Read handlers, which prune silently.
C29_DataSourceMissingIsError ==
    /\ ReadNotFound("datasource") => ErrorDiags # {} /\ state = NoState
    /\ ReadNotFound("resource") => ErrorDiags = {} /\ state = Removed

C29_Witness ==
    /\ ReadNotFound("datasource")
    /\ invoked.kind = "FirewallRule"
    /\ Len(requests) = 1
    /\ ErrorDiags # {}
    /\ state = NoState

ParseDone ==
    /\ pc = "done"
    /\ invoked.layer = "host"
    /\ invoked.op \in {"parseMACList", "parseMACListLegacy"}

\* Index of the first part of the text that trims to the entry.
FirstPart(text, entry) ==
    CHOOSE i \in 1..Len(text) :
        /\ TrimSpace(text[i]) = entry
        /\ \A j \in 1..(i - 1) : TrimSpace(text[j]) # entry

\* C30: parseMACList returns, for every comma-separated input, the
\* whitespace-trimmed non-empty entries without duplicates in
\* first-occurrence order, and parsing the comma-joined result again gives
\* the same entries.
C30_ParseMACListIdempotent ==
    ParseDone =>
        LET text == invoked.entity.v
            got == state.items
            again == IF invoked.op = "parseMACList"
                     THEN parseMACList(Join(got))
                     ELSE parseMACListLegacy(Join(got))
        IN /\ Range(got) = {TrimSpace(text[i]) : i \in 1..Len(text)} \ {""}
           /\ \A i, j \in 1..Len(got) : got[i] = got[j] => i = j
           /\ \A i, j \in 1..Len(got) :
                 i < j => FirstPart(text, got[i]) < FirstPart(text, got[j])
           /\ again.items = got

C30_Witness ==
    /\ ParseDone
    /\ invoked.entity.v = <<" AA:BB:CC:DD:EE:FF", "11:22:33:44:55:66", "AA:BB:CC:DD:EE:FF">>
    /\ state.items = <<"AA:BB:CC:DD:EE:FF", "11:22:33:44:55:66">>

====
